---- MODULE Spec2Model ----
(***************************************************************************)
(* Model of the lightmap bake pipeline of blender/bake_lightmaps.py: the   *)
(* scene graph (objects, meshes, UV layers, materials, collections,        *)
(* selection) and the stages of main().  Host operators (bpy.ops.*,        *)
(* uv_layers.new/remove) are modelled by their documented effect on the    *)
(* scene graph at the place the script calls them.                         *)
(*                                                                         *)
(* Names are pairs <<base, n>>: Blender keeps names unique inside a        *)
(* container by appending a numeric suffix, <<"Wall", 1>> is "Wall.001".   *)
(* Positions are integer triples in units of 1e-6; UV coordinates are      *)
(* integer pairs in units of 1/100.                                        *)
(***************************************************************************)
EXTENDS Integers, Sequences, FiniteSets, TLC

\* ------------------------------------------------------------ bounds
MaxObjects == 2
MaxSources == 2
MaxLayouts == 2

\* ----------------------------------------------------- configuration
Name(s) == <<s, 0>>
MANSION_COLLECTION_NAME == "Mansion"
LIGHTS_ON_COLLECTION_NAME == "Lights_ON"
LIGHTS_OFF_COLLECTION_NAME == "Lights_OFF"
BAKER_COLLECTION_NAME == "Lightmap_Baker"
LIGHTMAP_UV_NAME == Name("LightmapUV")
UVMAP_NAME == Name("UVMap")
MAP1_NAME == Name("map1")
BAKER_OBJECT_NAME == Name("Mansion_Lightmap_Baker")
IMAGE_ON == "Mansion_Lightmap_On"
IMAGE_OFF == "Mansion_Lightmap_Off"
AUTO_EXPORT_GLB == TRUE

NoObject == 0
NoImage == ""
NoMaterial == Name("")
NoCollection == ""

\* ------------------------------------------------------ sequence helpers
Range(s) == {s[i] : i \in 1..Len(s)}

RemoveAt(s, i) == [j \in 1..(Len(s) - 1) |-> IF j < i THEN s[j] ELSE s[j + 1]]

RECURSIVE SetToSeq(_)
SetToSeq(S) ==
    IF S = {} THEN <<>>
    ELSE LET m == CHOOSE x \in S : \A y \in S : x <= y
         IN <<m>> \o SetToSeq(S \ {m})

Max(S) == CHOOSE x \in S : \A y \in S : y <= x

Min(S) == CHOOSE x \in S : \A y \in S : x <= y

\* ------------------------------------------------------------ UV layers
DefaultUV == <<0, 0>>

HasLayer(layers, name) == \E i \in 1..Len(layers) : layers[i].name = name

\* uv_layers[name]: the first layer of that name
LayerIndex(layers, name) ==
    CHOOSE i \in 1..Len(layers) :
        /\ layers[i].name = name
        /\ \A j \in 1..(i - 1) : layers[j].name # name

LayerNames(layers) == [i \in 1..Len(layers) |-> layers[i].name]

\* The host keeps layer names unique: a taken name gets the next free suffix.
UniqueName(layers, name) ==
    IF ~HasLayer(layers, name) THEN name
    ELSE LET k == CHOOSE n \in 1..(Len(layers) + 1) :
                      /\ ~HasLayer(layers, <<name[1], name[2] + n>>)
                      /\ \A m \in 1..(n - 1) : HasLayer(layers, <<name[1], name[2] + m>>)
         IN <<name[1], name[2] + k>>

SetActive(layers, i) ==
    [j \in 1..Len(layers) |-> [layers[j] EXCEPT !.active = (j = i)]]

SetActiveRender(layers, i) ==
    [j \in 1..Len(layers) |-> [layers[j] EXCEPT !.active_render = (j = i)]]

\* uv_layers.new(name=...): appended; do_init copies the active layer's
\* coordinates (default coordinates when there is none); the first layer of a
\* mesh becomes the active and the active-render layer.
UvNew(layers, name, nloops) ==
    LET act  == {i \in 1..Len(layers) : layers[i].active}
        data == IF act = {} THEN [l \in 1..nloops |-> DefaultUV]
                ELSE layers[CHOOSE i \in act : TRUE].data
    IN Append(layers, [name          |-> UniqueName(layers, name),
                       data          |-> data,
                       active        |-> (Len(layers) = 0),
                       active_render |-> (Len(layers) = 0)])

\* uv_layers.remove(layer): the layer is dropped; when it carried the active
\* (active-render) flag the first remaining layer takes it.
UvRemove(layers, i) ==
    LET rest == RemoveAt(layers, i)
        a    == IF Len(rest) > 0 /\ layers[i].active THEN SetActive(rest, 1) ELSE rest
    IN IF Len(rest) > 0 /\ layers[i].active_render THEN SetActiveRender(a, 1) ELSE a

\* ------------------------------------------------------------- geometry
\* round(x, 5) on a coordinate held in units of 1e-6: the nearest multiple of
\* 10, a tie going to the even multiple (Python's round).
Round5(x) ==
    LET q == x \div 10
        r == x % 10
    IN IF r < 5 THEN 10 * q
       ELSE IF r > 5 THEN 10 * (q + 1)
       ELSE IF q % 2 = 0 THEN 10 * q ELSE 10 * (q + 1)

\* key = (round(co.x, 5), round(co.y, 5), round(co.z, 5))
PositionKey(co) == <<Round5(co[1]), Round5(co[2]), Round5(co[3])>>

\* poly.loop_indices of every polygon, in polygon order
RECURSIVE LoopOrder(_)
LoopOrder(polygons) ==
    IF Len(polygons) = 0 THEN <<>>
    ELSE Head(polygons) \o LoopOrder(Tail(polygons))

LoopKey(mesh, l) == PositionKey(mesh.vertices[mesh.loops[l]])

\* -------------------------------------------------------------- state
VARIABLES
    pc,                          \* where main() stands
    objects,                     \* bpy.data.objects: id -> object
    materials,                   \* bpy.data.materials: name -> material
    collections,                 \* bpy.data.collections: name -> collection
    images,                      \* bpy.data.images: the image names
    selected,                    \* bpy.context.selected_objects
    active,                      \* bpy.context.view_layer.objects.active
    mansion_objects,             \* main: mansion_objects
    joined_mansion,              \* main: joined_mansion
    original_objects,            \* main: original_objects
    lights_on,                   \* main: lights_on (a collection name)
    lights_off,                  \* main: lights_off
    image_name,                  \* perform_bake: image_name
    original_light_energies,     \* perform_bake: original_light_energies
    original_emission_strengths, \* perform_bake: original_emission_strengths
    baked,                       \* the images a bake was run into
    saved,                       \* the working document was written
    exported,                    \* the ids handed to the glTF exporter
    scene0,                      \* the scene as it was when main() started
    mode,                        \* bpy.context.mode
    log                          \* logger.log: the lines written, as tags

vars == <<pc, objects, materials, collections, images, selected, active,
          mansion_objects, joined_mansion, original_objects, lights_on,
          lights_off, image_name, original_light_energies,
          original_emission_strengths, baked, saved, exported, scene0, mode, log>>

\* ------------------------------------------------------- scene helpers
Ids == DOMAIN objects

IsMesh(o) == objects[o].type = "MESH"

NLoops(obj) == Len(obj.data.loops)

\* find_meshes(coll): the collection's own mesh objects, then its children's
RECURSIVE find_meshes(_, _, _)
find_meshes(objs, colls, c) ==
    LET own == SetToSeq({o \in colls[c].objects : objs[o].type = "MESH"})
        kids == colls[c].children
        sub[i \in 0..Len(kids)] ==
            IF i = 0 THEN <<>> ELSE sub[i - 1] \o find_meshes(objs, colls, kids[i])
    IN own \o sub[Len(kids)]

\* variant: the collection and its direct children are looked at, no deeper
get_all_mesh_objects_in_collection_OneLevel(collection_name) ==
    IF collection_name \notin DOMAIN collections THEN <<>>
    ELSE LET kids == collections[collection_name].children
             objs == collections[collection_name].objects
                        \cup UNION {collections[kids[i]].objects : i \in 1..Len(kids)}
         IN SetToSeq({o \in objs : objects[o].type = "MESH"})

\* variant: only the collection's own objects are looked at
get_all_mesh_objects_in_collection_Direct(collection_name) ==
    IF collection_name \notin DOMAIN collections THEN <<>>
    ELSE SetToSeq({o \in collections[collection_name].objects :
                      objects[o].type = "MESH"})

\* lines 71-87
get_all_mesh_objects_in_collection(collection_name) ==
    IF collection_name \notin DOMAIN collections THEN <<>>
    ELSE find_meshes(objects, collections, collection_name)

\* collection.all_objects: the objects of the collection and of every
\* collection below it
RECURSIVE all_objects(_, _)
all_objects(colls, c) ==
    colls[c].objects \cup
        UNION {all_objects(colls, colls[c].children[i]) : i \in 1..Len(colls[c].children)}

\* --------------------------------------------------- ensure_uv1_exists
EnsureUv1One(objs, o) ==
    IF objs[o].type # "MESH" THEN objs
    ELSE IF Len(objs[o].data.uv_layers) = 0
         THEN [objs EXCEPT ![o].data.uv_layers = UvNew(<<>>, UVMAP_NAME, NLoops(objs[o]))]
         ELSE objs

RECURSIVE ensure_uv1_exists(_, _)
ensure_uv1_exists(objs, list) ==
    IF Len(list) = 0 THEN objs
    ELSE ensure_uv1_exists(EnsureUv1One(objs, Head(list)), Tail(list))

\* ----------------------------------------------------- apply_modifiers
\* bpy.ops.object.modifier_apply on the active object: the modifier leaves
\* the stack and its deformation becomes the mesh; a modifier the host
\* cannot apply raises RuntimeError, which apply_modifiers catches.
ModifierApply(obj, m) ==
    IF obj.modifiers[m].raises THEN obj
    ELSE [obj EXCEPT
            !.modifiers = RemoveAt(obj.modifiers, m),
            !.data.vertices =
                [v \in 1..Len(obj.data.vertices) |->
                    <<obj.data.vertices[v][1] + obj.modifiers[m].shift,
                      obj.data.vertices[v][2], obj.data.vertices[v][3]>>]]

\* for modifier in reversed(obj.modifiers[:]): from index m down to 1
RECURSIVE ApplyFrom(_, _)
ApplyFrom(obj, m) ==
    IF m = 0 THEN obj
    ELSE IF obj.modifiers[m].show_viewport
         THEN ApplyFrom(ModifierApply(obj, m), m - 1)
         ELSE ApplyFrom(obj, m - 1)

\* variant: a modifier that raises ends the work on its object
ApplyModifiersOne_NoCatch(objs, o) ==
    IF \E m \in 1..Len(objs[o].modifiers) :
            objs[o].modifiers[m].show_viewport /\ objs[o].modifiers[m].raises
    THEN objs
    ELSE [objs EXCEPT ![o] = ApplyFrom(@, Len(@.modifiers))]

ApplyModifiersOne(objs, o) ==
    [objs EXCEPT ![o] = ApplyFrom(objs[o], Len(objs[o].modifiers))]

\* line 193: one line is logged for every modifier whose application raised
RECURSIVE ModifierErrors(_, _)
ModifierErrors(objs, list) ==
    IF Len(list) = 0 THEN <<>>
    ELSE LET mods == objs[Head(list)].modifiers
         IN [i \in 1..Cardinality({m \in 1..Len(mods) :
                                      mods[m].show_viewport /\ mods[m].raises}) |->
                "could_not_apply"]
            \o ModifierErrors(objs, Tail(list))

RECURSIVE apply_modifiers(_, _)
apply_modifiers(objs, list) ==
    IF Len(list) = 0 THEN objs
    ELSE apply_modifiers(ApplyModifiersOne(objs, Head(list)), Tail(list))

\* -------------------------------------------------------- join_objects
UniqueObjectName(objs, name) ==
    IF \A o \in DOMAIN objs : objs[o].name # name THEN name
    ELSE LET taken(n) == \E o \in DOMAIN objs : objs[o].name = <<name[1], name[2] + n>>
             k == CHOOSE n \in 1..(Cardinality(DOMAIN objs) + 1) :
                      ~taken(n) /\ \A m \in 1..(n - 1) : taken(m)
         IN <<name[1], name[2] + k>>

\* bpy.ops.object.duplicate(): every selected object gets a copy with its own
\* mesh data and a fresh name; the copy shares the materials of the source.
\* DupIds gives the ids of the copies in the order of their sources.
DupIds(objs, sel) ==
    LET src == SetToSeq(sel)
    IN [i \in 1..Len(src) |-> Max(DOMAIN objs) + i]

RECURSIVE Duplicate(_, _, _)
Duplicate(objs, src, ids) ==
    IF Len(src) = 0 THEN objs
    ELSE LET copy == [objs[Head(src)] EXCEPT
                        !.name = UniqueObjectName(objs, objs[Head(src)].name)]
         IN Duplicate([o \in DOMAIN objs \cup {Head(ids)} |->
                          IF o = Head(ids) THEN copy ELSE objs[o]],
                      Tail(src), Tail(ids))

\* the copies are linked to the collections of their sources
DuplicateLinks(colls, src, ids) ==
    [c \in DOMAIN colls |->
        [colls[c] EXCEPT !.objects =
            @ \cup {ids[i] : i \in {j \in 1..Len(src) : src[j] \in colls[c].objects}}]]

\* bpy.ops.object.join(): the meshes of the other selected objects are
\* appended to the active object's mesh.  UV layers are matched by name; a
\* layer one part lacks is filled with default coordinates for that part.
JoinLayerData(mesh, name) ==
    IF HasLayer(mesh.uv_layers, name)
    THEN mesh.uv_layers[LayerIndex(mesh.uv_layers, name)].data
    ELSE [l \in 1..Len(mesh.loops) |-> DefaultUV]

RECURSIVE NewLayerNames(_, _)
NewLayerNames(have, names) ==
    IF Len(names) = 0 THEN <<>>
    ELSE IF Head(names) \in have THEN NewLayerNames(have, Tail(names))
         ELSE <<Head(names)>> \o NewLayerNames(have \cup {Head(names)}, Tail(names))

RECURSIVE NewSlots(_, _)
NewSlots(have, slots) ==
    IF Len(slots) = 0 THEN <<>>
    ELSE IF Head(slots) \in have THEN NewSlots(have, Tail(slots))
         ELSE <<Head(slots)>> \o NewSlots(have \cup {Head(slots)}, Tail(slots))

JoinMesh(a, b) ==
    LET nv    == Len(a.vertices)
        nl    == Len(a.loops)
        added == NewLayerNames(Range(LayerNames(a.uv_layers)), LayerNames(b.uv_layers))
        kept  == [i \in 1..Len(a.uv_layers) |->
                    [a.uv_layers[i] EXCEPT
                        !.data = @ \o JoinLayerData(b, a.uv_layers[i].name)]]
        extra == [i \in 1..Len(added) |->
                    [name          |-> added[i],
                     data          |-> [l \in 1..nl |-> DefaultUV] \o JoinLayerData(b, added[i]),
                     active        |-> FALSE,
                     active_render |-> FALSE]]
    IN [a EXCEPT
          !.vertices  = @ \o b.vertices,
          !.loops     = @ \o [l \in 1..Len(b.loops) |-> b.loops[l] + nv],
          !.polygons  = @ \o [p \in 1..Len(b.polygons) |->
                                [k \in 1..Len(b.polygons[p]) |-> b.polygons[p][k] + nl]],
          !.uv_layers = kept \o extra]

RECURSIVE JoinInto(_, _, _)
JoinInto(objs, act, others) ==
    IF Len(others) = 0 THEN objs
    ELSE LET b == objs[Head(others)]
             joined == [objs[act] EXCEPT
                          !.data = JoinMesh(@, b.data),
                          !.material_slots =
                              @ \o NewSlots(Range(@), b.material_slots)]
         IN JoinInto([o \in DOMAIN objs \ {Head(others)} |->
                         IF o = act THEN joined ELSE objs[o]],
                     act, Tail(others))

\* variant: 'map1' stays
JoinFixLayers_KeepMap1(layers) ==
    IF HasLayer(layers, LIGHTMAP_UV_NAME)
    THEN SetActiveRender(layers, LayerIndex(layers, LIGHTMAP_UV_NAME)) ELSE layers

\* lines 240-255: drop 'map1', make 'LightmapUV' the active-render layer
JoinFixLayers(layers) ==
    LET l1 == IF HasLayer(layers, MAP1_NAME)
              THEN UvRemove(layers, LayerIndex(layers, MAP1_NAME)) ELSE layers
    IN IF HasLayer(l1, LIGHTMAP_UV_NAME)
       THEN SetActiveRender(l1, LayerIndex(l1, LIGHTMAP_UV_NAME)) ELSE l1

\* lines 257-266: the joined object leaves every collection it is in and is
\* linked to 'Lightmap_Baker', created when it does not exist
MoveToBaker(colls, j, alive) ==
    LET withBaker == IF BAKER_COLLECTION_NAME \in DOMAIN colls THEN colls
                     ELSE [c \in DOMAIN colls \cup {BAKER_COLLECTION_NAME} |->
                              IF c = BAKER_COLLECTION_NAME
                              THEN [objects |-> {}, children |-> <<>>] ELSE colls[c]]
    IN [c \in DOMAIN withBaker |->
          [withBaker[c] EXCEPT !.objects =
              IF c = BAKER_COLLECTION_NAME THEN (@ \cap alive) \cup {j}
              ELSE (@ \cap alive) \ {j}]]

\* variant: the sources themselves are joined, no copy is made
JoinDuplicates_InPlace(objs, list) ==
    LET j   == list[1]
        mrg == JoinInto(objs, j, Tail(list))
    IN [o \in DOMAIN mrg \cup {Max(DOMAIN objs) + 1} |->
          IF o = Max(DOMAIN objs) + 1
          THEN [mrg[j] EXCEPT !.name = BAKER_OBJECT_NAME,
                              !.data.uv_layers = JoinFixLayers(@)]
          ELSE mrg[o]]

\* join_objects(objects) for len(objects) > 1: the scene after the call
JoinDuplicates(objs, list) ==
    LET sel  == Range(list)
        src  == SetToSeq(sel)
        ids  == DupIds(objs, sel)
        dup  == Duplicate(objs, src, ids)
        j    == ids[1]
        mrg  == JoinInto(dup, j, Tail(ids))
        nm   == UniqueObjectName([o \in DOMAIN mrg \ {j} |-> mrg[o]], BAKER_OBJECT_NAME)
    IN [mrg EXCEPT ![j].name = nm,
                   ![j].data.uv_layers = JoinFixLayers(@)]

\* ------------------------------------------------------ cleanup_meshes
MERGE_THRESHOLD == 100

Abs(x) == IF x < 0 THEN 0 - x ELSE x

\* the distance of two positions is at most the merge threshold
Within(a, b) ==
    LET dx == Abs(a[1] - b[1])
        dy == Abs(a[2] - b[2])
        dz == Abs(a[3] - b[3])
    IN /\ dx <= MERGE_THRESHOLD /\ dy <= MERGE_THRESHOLD /\ dz <= MERGE_THRESHOLD
       /\ dx * dx + dy * dy + dz * dz <= MERGE_THRESHOLD * MERGE_THRESHOLD

\* bpy.ops.mesh.remove_doubles(threshold=0.0001): a vertex within the
\* threshold of an earlier vertex is welded onto it.
RemoveDoubles(mesh) ==
    LET nv == Len(mesh.vertices)
        near(v) == CHOOSE u \in 1..v :
                      /\ Within(mesh.vertices[u], mesh.vertices[v])
                      /\ \A w \in 1..(u - 1) :
                            ~Within(mesh.vertices[w], mesh.vertices[v])
        root[v \in 1..nv] == IF near(v) = v THEN v ELSE root[near(v)]
        kept == SetToSeq({v \in 1..nv : root[v] = v})
        index(v) == CHOOSE i \in 1..Len(kept) : kept[i] = root[v]
    IN [mesh EXCEPT
          !.vertices = [i \in 1..Len(kept) |-> mesh.vertices[kept[i]]],
          !.loops    = [l \in 1..Len(mesh.loops) |-> index(mesh.loops[l])]]

\* bpy.ops.mesh.quads_convert_to_tris(): a polygon of more than three loops
\* becomes a fan of triangles; loop data follows the corner it came from.
Fan(poly) == [t \in 1..(Len(poly) - 2) |-> <<poly[1], poly[t + 1], poly[t + 2]>>]

RECURSIVE Fans(_)
Fans(polygons) ==
    IF Len(polygons) = 0 THEN <<>>
    ELSE (IF Len(Head(polygons)) > 3 THEN Fan(Head(polygons)) ELSE <<Head(polygons)>>)
            \o Fans(Tail(polygons))

Triangulate(mesh) ==
    IF \A p \in 1..Len(mesh.polygons) : Len(mesh.polygons[p]) <= 3 THEN mesh
    ELSE LET tris == Fans(mesh.polygons)
             from == LoopOrder(tris)
             start[p \in 0..Len(tris)] == IF p = 0 THEN 0 ELSE start[p - 1] + Len(tris[p])
         IN [mesh EXCEPT
               !.loops     = [l \in 1..Len(from) |-> mesh.loops[from[l]]],
               !.polygons  = [p \in 1..Len(tris) |->
                                 [k \in 1..Len(tris[p]) |-> start[p - 1] + k]],
               !.uv_layers = [i \in 1..Len(mesh.uv_layers) |->
                                 [mesh.uv_layers[i] EXCEPT
                                    !.data = [l \in 1..Len(from) |-> @[from[l]]]]]]

\* remove_doubles, normals_make_consistent (no field of the model changes),
\* quads_convert_to_tris on every selected object
CleanupOne(objs, o) ==
    [objs EXCEPT ![o].data = Triangulate(RemoveDoubles(@))]

RECURSIVE cleanup_meshes(_, _)
cleanup_meshes(objs, list) ==
    IF Len(list) = 0 THEN objs
    ELSE cleanup_meshes(CleanupOne(objs, Head(list)), Tail(list))

\* ----------------------------------------------------------- setup_uvs
RECURSIVE RemoveExtraLayers(_)
RemoveExtraLayers(layers) ==
    IF Len(layers) <= 1 THEN layers
    ELSE RemoveExtraLayers(UvRemove(layers, 2))

\* lines 385-416: keep the layer at index 0 (synthesize 'UVMap' when there is
\* none), remove every other layer, create 'LightmapUV' and make it the active
\* and active-render layer
SetupUvsNormalize(layers, nloops) ==
    LET l1 == IF Len(layers) = 0 THEN UvNew(layers, UVMAP_NAME, nloops) ELSE layers
        l2 == RemoveExtraLayers(l1)
        l3 == UvNew(l2, LIGHTMAP_UV_NAME, nloops)
    IN SetActiveRender(SetActive(l3, Len(l3)), Len(l3))

\* lines 110-129 of unwrap_original_objects: the same normalization per object
UnwrapOriginalNormalize(layers, nloops) ==
    LET l1 == IF Len(layers) = 0 THEN UvNew(layers, UVMAP_NAME, nloops) ELSE layers
        l2 == RemoveExtraLayers(l1)
        l3 == UvNew(l2, LIGHTMAP_UV_NAME, nloops)
    IN SetActiveRender(SetActive(l3, Len(l3)), Len(l3))

\* The coordinates an unwrap operator can produce: layout k puts loop l on
\* the point (l - 1) * k of UVPoints (layout 0 collapses every loop).
UVPoints == << <<0, 0>>, <<100, 100>>, <<50, 0>> >>

Layout(nloops, k) ==
    [l \in 1..nloops |-> UVPoints[(((l - 1) * k) % Len(UVPoints)) + 1]]

\* The unwrap operators write the active UV layer.
WriteActiveLayer(layers, data) ==
    [i \in 1..Len(layers) |->
        IF layers[i].active THEN [layers[i] EXCEPT !.data = data] ELSE layers[i]]

\* lines 429-452: smart_project and pack_islands, on an exception the
\* angle-based unwrap; "failed" is both raising
Unwrap(layers, nloops, outcome, k) ==
    IF outcome = "failed" THEN layers
    ELSE WriteActiveLayer(layers, Layout(nloops, k))

\* The courses the try block of lines 429-452 can take: smart_project and
\* pack_islands both return ("primary"); smart_project raises and the
\* angle-based unwrap returns ("fallback") or raises ("failed");
\* smart_project returns, pack_islands raises and the angle-based unwrap
\* returns ("packing_fallback") or raises ("packing_failed", the coordinates
\* of smart_project stay).
UnwrapOutcomes ==
    {"primary", "fallback", "failed", "packing_fallback", "packing_failed"}

\* variant: after the primary unwrap raised nothing else is tried
UnwrapLog_NoFallback(outcome) ==
    (IF outcome \in {"primary", "packing_fallback", "packing_failed"}
     THEN <<"smart_project_completed">> ELSE <<>>)
    \o (IF outcome # "primary"
        THEN <<"smart_project_failed", "all_unwrap_failed">>
        ELSE <<"packing_completed">>)

\* lines 438-452: the lines logged around the operators. "trying_fallback"
\* (line 447) is written immediately before the one call of uv.unwrap.
UnwrapLog(outcome) ==
    (IF outcome \in {"primary", "packing_fallback", "packing_failed"}
     THEN <<"smart_project_completed">> ELSE <<>>)
    \o (IF outcome # "primary"
        THEN <<"smart_project_failed", "trying_fallback">>
                \o (IF outcome \in {"failed", "packing_failed"} THEN <<"all_unwrap_failed">>
                    ELSE <<"basic_unwrap_completed">>)
        ELSE <<"packing_completed">>)

\* lines 475-477: at most SAMPLE_LIMIT coordinates are read, the i-th at
\* index int(i * (uv_count / sample_count))
SAMPLE_LIMIT == 100

\* variant: only the first coordinate is read
SampleIndexes_FirstOnly(uv_count) == IF uv_count = 0 THEN {} ELSE {1}

SampleIndexes(uv_count) ==
    LET sample_count == IF uv_count < SAMPLE_LIMIT THEN uv_count ELSE SAMPLE_LIMIT
    IN {((i * uv_count) \div sample_count) + 1 : i \in 0..(sample_count - 1)}

\* variant: the range of the bounds is tested before their extent
CoverageClass_RangeFirst(data) ==
    LET S == {data[i] : i \in SampleIndexes(Len(data))}
    IN IF S = {} THEN "collapsed"
       ELSE LET min_u == Min({p[1] : p \in S})
                max_u == Max({p[1] : p \in S})
                min_v == Min({p[2] : p \in S})
                max_v == Max({p[2] : p \in S})
                total_coverage == (max_u - min_u) * (max_v - min_v)
            IN IF min_u < -10 \/ max_u > 110 \/ min_v < -10 \/ max_v > 110
                    THEN "outside_range"
               ELSE IF max_u - min_u < 10 \/ max_v - min_v < 10 THEN "collapsed"
               ELSE IF total_coverage < 1000 THEN "low_coverage"
               ELSE IF total_coverage > 5000 THEN "excellent"
               ELSE "acceptable"

\* variant: the class is decided by the area of the bounds alone
CoverageClass_AreaOnly(data) ==
    LET S == {data[i] : i \in SampleIndexes(Len(data))}
    IN IF S = {} THEN "collapsed"
       ELSE LET total_coverage == (Max({p[1] : p \in S}) - Min({p[1] : p \in S}))
                                    * (Max({p[2] : p \in S}) - Min({p[2] : p \in S}))
            IN IF total_coverage < 1000 THEN "collapsed"
               ELSE IF total_coverage > 5000 THEN "acceptable"
               ELSE "low_coverage"

\* lines 466-502: the bounds of the sampled coordinates and the line logged
\* for them. Coordinates are in 1/100, so 0.1 is 10 and an area of 0.1 is
\* 1000. Without a sample the bounds stay at +inf and -inf and coverage_u
\* is -inf.
CoverageClass(data) ==
    LET S == {data[i] : i \in SampleIndexes(Len(data))}
    IN IF S = {} THEN "collapsed"
       ELSE LET min_u == Min({p[1] : p \in S})
                max_u == Max({p[1] : p \in S})
                min_v == Min({p[2] : p \in S})
                max_v == Max({p[2] : p \in S})
                coverage_u == max_u - min_u
                coverage_v == max_v - min_v
                total_coverage == coverage_u * coverage_v
            IN IF coverage_u < 10 \/ coverage_v < 10 THEN "collapsed"
               ELSE IF total_coverage < 1000 THEN "low_coverage"
               ELSE IF min_u < -10 \/ max_u > 110 \/ min_v < -10 \/ max_v > 110
                    THEN "outside_range"
               ELSE IF total_coverage > 5000 THEN "excellent"
               ELSE "acceptable"

\* lines 461-502: the check runs when the mesh has a layer named LightmapUV
CoverageLog(layers) ==
    IF HasLayer(layers, LIGHTMAP_UV_NAME)
    THEN <<CoverageClass(layers[LayerIndex(layers, LIGHTMAP_UV_NAME)].data)>>
    ELSE <<>>

setup_uvs(objs, list, outcome, k) ==
    IF Len(list) = 0 THEN objs
    ELSE LET o == list[1]
             n == NLoops(objs[o])
         IN [objs EXCEPT ![o].data.uv_layers =
                Unwrap(SetupUvsNormalize(@, n), n, outcome, k)]

\* unwrap_original_objects lines 100-155: per mesh object the normalization,
\* then lightmap_pack on the active layer; an exception of the operator is
\* caught and the object keeps the coordinates it has
RECURSIVE unwrap_original_objects(_, _, _, _)
unwrap_original_objects(objs, list, outcome, k) ==
    IF Len(list) = 0 THEN objs
    ELSE LET o == Head(list)
             n == NLoops(objs[o])
         IN unwrap_original_objects(
                IF objs[o].type # "MESH" THEN objs
                ELSE [objs EXCEPT ![o].data.uv_layers =
                        Unwrap(UnwrapOriginalNormalize(@, n), n, outcome, k)],
                Tail(list), outcome, k)

\* export_uv_layout(obj, uv_layer_name, ...): the named layer becomes the
\* active one when it exists
ExportUvLayout(objs, o, name) ==
    IF HasLayer(objs[o].data.uv_layers, name)
    THEN [objs EXCEPT ![o].data.uv_layers = SetActive(@, LayerIndex(@, name))]
    ELSE objs

\* -------------------------------------------- transfer_lightmap_uvs_fast
\* the loops the polygons of a mesh visit, in iteration order
VisitedLoops(mesh) == LoopOrder(mesh.polygons)

\* vert_to_uv: for every key the coordinate of the first visited loop there
TableKeys(mesh) == {LoopKey(mesh, l) : l \in Range(VisitedLoops(mesh))}

\* variant: the last visited loop at the key wins
FirstLoopAt_LastWins(mesh, key) ==
    LET order == VisitedLoops(mesh)
        i == CHOOSE n \in 1..Len(order) :
                /\ LoopKey(mesh, order[n]) = key
                /\ \A m \in (n + 1)..Len(order) : LoopKey(mesh, order[m]) # key
    IN order[i]

FirstLoopAt(mesh, key) ==
    LET order == VisitedLoops(mesh)
        i == CHOOSE n \in 1..Len(order) :
                /\ LoopKey(mesh, order[n]) = key
                /\ \A m \in 1..(n - 1) : LoopKey(mesh, order[m]) # key
    IN order[i]

VertToUv(mesh) ==
    LET src == mesh.uv_layers[LayerIndex(mesh.uv_layers, LIGHTMAP_UV_NAME)].data
    IN [key \in TableKeys(mesh) |-> src[FirstLoopAt(mesh, key)]]

\* variant: a layer is created in every call
TransferEnsureLayer_Always(layers, nloops) ==
    UvNew(layers, LIGHTMAP_UV_NAME, nloops)

\* lines 618-620
TransferEnsureLayer(layers, nloops) ==
    IF ~HasLayer(layers, LIGHTMAP_UV_NAME) THEN UvNew(layers, LIGHTMAP_UV_NAME, nloops)
    ELSE layers

\* lines 624-633
TransferCopy(mesh, data, table) ==
    [l \in 1..Len(data) |->
        IF l \in Range(VisitedLoops(mesh)) /\ LoopKey(mesh, l) \in DOMAIN table
        THEN table[LoopKey(mesh, l)] ELSE data[l]]

TransferOne(obj, table) ==
    LET l1 == TransferEnsureLayer(obj.data.uv_layers, NLoops(obj))
        t  == LayerIndex(l1, LIGHTMAP_UV_NAME)
        l2 == [l1 EXCEPT ![t].data = TransferCopy(obj.data, @, table)]
    IN [obj EXCEPT !.data.uv_layers =
            SetActiveRender(l2, LayerIndex(l2, LIGHTMAP_UV_NAME))]

RECURSIVE TransferAll(_, _, _)
TransferAll(objs, list, table) ==
    IF Len(list) = 0 THEN objs
    ELSE LET o == Head(list)
         IN TransferAll(IF o = NoObject \/ objs[o].type # "MESH" THEN objs
                        ELSE [objs EXCEPT ![o] = TransferOne(@, table)],
                        Tail(list), table)

\* variant: only the first original receives the transfer
transfer_lightmap_uvs_fast_FirstOnly(objs, baked_object, originals) ==
    IF baked_object = NoObject THEN objs
    ELSE IF ~HasLayer(objs[baked_object].data.uv_layers, LIGHTMAP_UV_NAME) THEN objs
    ELSE TransferAll(objs, SubSeq(originals, 1, 1), VertToUv(objs[baked_object].data))

transfer_lightmap_uvs_fast(objs, baked_object, originals) ==
    IF baked_object = NoObject THEN objs
    ELSE IF ~HasLayer(objs[baked_object].data.uv_layers, LIGHTMAP_UV_NAME) THEN objs
    ELSE TransferAll(objs, originals, VertToUv(objs[baked_object].data))

\* --------------------------------------------------- verify_and_fix_uv2
\* variant: the fallback copies the layer that was last
VerifyFallback_CopyLast(layers, nloops) ==
    LET l1 == UvNew(layers, LIGHTMAP_UV_NAME, nloops)
        l2 == SetActiveRender(l1, Len(l1))
    IN [l2 EXCEPT ![Len(l2)].data = [l \in 1..nloops |-> l2[Len(l2) - 1].data[l]]]

\* lines 751-763: the fallback copies the coordinates of the layer at index 0
VerifyFallback(layers, nloops) ==
    LET l1 == UvNew(layers, LIGHTMAP_UV_NAME, nloops)
        l2 == SetActiveRender(l1, Len(l1))
    IN [l2 EXCEPT ![Len(l2)].data = [l \in 1..nloops |-> l2[1].data[l]]]

VerifyOne(objs, o) ==
    IF objs[o].type # "MESH" THEN objs
    ELSE LET layers == objs[o].data.uv_layers
         IN IF ~HasLayer(layers, LIGHTMAP_UV_NAME)
            THEN IF Len(layers) > 0
                 THEN [objs EXCEPT ![o].data.uv_layers = VerifyFallback(@, NLoops(objs[o]))]
                 ELSE objs
            ELSE [objs EXCEPT ![o].data.uv_layers =
                     SetActiveRender(@, LayerIndex(@, LIGHTMAP_UV_NAME))]

RECURSIVE verify_and_fix_uv2(_, _)
verify_and_fix_uv2(objs, list) ==
    IF Len(list) = 0 THEN objs
    ELSE verify_and_fix_uv2(VerifyOne(objs, Head(list)), Tail(list))

\* --------------------------------------------------------- perform_bake
\* "On" in image_name (strings are atoms here: the test is tabulated)
ContainsOn(name) == name = IMAGE_ON

\* The light configuration works on st = [objs, mats, le, es]: the objects,
\* the materials, original_light_energies and original_emission_strengths.

\* lines 985-989 (restore) and 1003-1007 (zero) for node n of slot s of o
EmissionNodeStep(st, o, s, n, restore) ==
    LET mat  == st.objs[o].material_slots[s]
        node == st.mats[mat].nodes[n]
        key  == <<st.objs[o].name, s, n>>
        es1  == IF key \notin DOMAIN st.es THEN st.es @@ (key :> node.strength)
                ELSE st.es
    IN IF node.type # "EMISSION" THEN st
       ELSE [st EXCEPT !.es = es1,
                       !.mats[mat].nodes[n].strength =
                            IF restore THEN es1[key] ELSE 0]

RECURSIVE EmissionNodes(_, _, _, _, _)
EmissionNodes(st, o, s, n, restore) ==
    IF n > Len(st.mats[st.objs[o].material_slots[s]].nodes) THEN st
    ELSE EmissionNodes(EmissionNodeStep(st, o, s, n, restore), o, s, n + 1, restore)

RECURSIVE EmissionSlots(_, _, _, _)
EmissionSlots(st, o, s, restore) ==
    IF s > Len(st.objs[o].material_slots) THEN st
    ELSE LET mat == st.objs[o].material_slots[s]
         IN EmissionSlots(IF mat # NoMaterial /\ st.mats[mat].use_nodes
                          THEN EmissionNodes(st, o, s, 1, restore) ELSE st,
                          o, s + 1, restore)

\* lines 974-979 (restore) and 993-997 (zero): the energy of a light
LightEnergyStep(st, o, restore) ==
    LET name == st.objs[o].name
        le1  == IF name \notin DOMAIN st.le
                THEN st.le @@ (name :> st.objs[o].data.energy) ELSE st.le
    IN [st EXCEPT !.le = le1,
                  !.objs[o].data.energy = IF restore THEN le1[name] ELSE 0]

LightStep(st, o, restore) ==
    LET s1 == IF st.objs[o].type = "LIGHT" THEN LightEnergyStep(st, o, restore) ELSE st
    IN IF s1.objs[o].type = "MESH" /\ Len(s1.objs[o].material_slots) > 0
       THEN EmissionSlots(s1, o, 1, restore) ELSE s1

RECURSIVE LightLoop(_, _, _)
LightLoop(st, list, restore) ==
    IF Len(list) = 0 THEN st
    ELSE LightLoop(LightStep(st, Head(list), restore), Tail(list), restore)

\* variant: the dictionaries of the previous call are kept
ConfigureLights_Persistent(objs, mats, colls, name, on, off) ==
    LET st0  == [objs |-> objs, mats |-> mats, le |-> original_light_energies,
                 es |-> original_emission_strengths]
        onL  == SetToSeq(all_objects(colls, on))
        offL == SetToSeq(all_objects(colls, off))
    IN IF ContainsOn(name)
       THEN LightLoop(LightLoop(st0, onL, TRUE), offL, FALSE)
       ELSE LightLoop(LightLoop(st0, onL, FALSE), offL, TRUE)

\* lines 968-1043: both dictionaries start empty in every call
ConfigureLights(objs, mats, colls, name, on, off) ==
    LET st0  == [objs |-> objs, mats |-> mats, le |-> <<>>, es |-> <<>>]
        onL  == SetToSeq(all_objects(colls, on))
        offL == SetToSeq(all_objects(colls, off))
    IN IF ContainsOn(name)
       THEN LightLoop(LightLoop(st0, onL, TRUE), offL, FALSE)
       ELSE LightLoop(LightLoop(st0, onL, FALSE), offL, TRUE)

\* nodes.new(type='ShaderNodeTexImage'): the node the host creates reports
\* the type 'TEX_IMAGE'
NewImageNode(image) == [type |-> "TEX_IMAGE", strength |-> 0, image |-> image]

LIGHTMAP_MATERIAL == Name("LightmapMaterial")

\* bpy.data.materials.new(name="LightmapMaterial") with use_nodes = True
NewMaterialName(mats) ==
    IF LIGHTMAP_MATERIAL \notin DOMAIN mats THEN LIGHTMAP_MATERIAL
    ELSE <<LIGHTMAP_MATERIAL[1], 1>>

DefaultNodes == << [type |-> "BSDF_PRINCIPLED", strength |-> 0, image |-> NoImage] >>

\* lines 1069-1075: an image node per slot, made the active node
RECURSIVE AssignImageNodes(_, _, _)
AssignImageNodes(mats, slots, image) ==
    IF Len(slots) = 0 THEN mats
    ELSE LET m == Head(slots)
         IN AssignImageNodes(
                IF m # NoMaterial /\ mats[m].use_nodes
                THEN [mats EXCEPT ![m].nodes = Append(@, NewImageNode(image)),
                                  ![m].active_node = Len(mats[m].nodes) + 1]
                ELSE mats,
                Tail(slots), image)

\* ------------------------------------------- clean / export (lines 792-913)
LightmapImage(image) == image \in {IMAGE_ON, IMAGE_OFF}

\* lines 812-821: the image-texture nodes holding a lightmap image leave the
\* material; the comparison is with the string 'ShaderNodeTexImage'
KeepNode(node) ==
    ~(node.type = "ShaderNodeTexImage" /\ node.image # NoImage /\ LightmapImage(node.image))

RECURSIVE FilterNodes(_)
FilterNodes(nodes) ==
    IF Len(nodes) = 0 THEN <<>>
    ELSE (IF KeepNode(Head(nodes)) THEN <<Head(nodes)>> ELSE <<>>) \o FilterNodes(Tail(nodes))

RECURSIVE CleanSlots(_, _)
CleanSlots(mats, slots) ==
    IF Len(slots) = 0 THEN mats
    ELSE LET m == Head(slots)
         IN CleanSlots(IF m # NoMaterial /\ mats[m].use_nodes
                       THEN [mats EXCEPT ![m].nodes = FilterNodes(@)] ELSE mats,
                       Tail(slots))

RECURSIVE clean_lightmap_nodes_from_materials(_, _, _)
clean_lightmap_nodes_from_materials(objs, mats, list) ==
    IF Len(list) = 0 THEN mats
    ELSE clean_lightmap_nodes_from_materials(
            objs,
            IF objs[Head(list)].type = "MESH"
            THEN CleanSlots(mats, objs[Head(list)].material_slots) ELSE mats,
            Tail(list))

\* obj.select_set(True): an object disabled in the viewport stays unselected
Selectable(objs, S) == {o \in S : ~objs[o].hide_viewport}

\* ------------------------------------------------------------- scenes
\* The meshes of the bounded scenes: quad i of a strip along x, one polygon of
\* four loops.  Corner 1 of quad i + 1 lies 4e-6 from corner 2 of quad i (the
\* two round to the same key); corner 4 of quad i + 1 lies 40e-6 from corner 3
\* of quad i (merged by remove_doubles, but with another key).
Shape(i) ==
    [vertices |-> << <<(i - 1) * 1000000 + (IF i > 1 THEN 4 ELSE 0), 0, 0>>,
                     <<i * 1000000, 0, 0>>,
                     <<i * 1000000, 1000000 + 15 * (i - 1), 0>>,
                     <<(i - 1) * 1000000 + (IF i > 1 THEN 40 ELSE 0), 1000000, 0>> >>,
     loops    |-> <<1, 2, 3, 4>>,
     polygons |-> << <<1, 2, 3, 4>> >>]

\* the UV layers a mesh starts with: the first is active and active-render
StartLayers(names, nloops) ==
    [i \in 1..Len(names) |->
        [name          |-> names[i],
         data          |-> [l \in 1..nloops |-> UVPoints[((l + i) % Len(UVPoints)) + 1]],
         active        |-> (i = 1),
         active_render |-> (i = 1)]]

UVConfigs ==
    { <<>>, <<UVMAP_NAME>>, <<UVMAP_NAME, LIGHTMAP_UV_NAME>>, <<UVMAP_NAME, MAP1_NAME>>,
      <<MAP1_NAME, Name("Extra"), UVMAP_NAME>>, <<LIGHTMAP_UV_NAME>> }

MeshObject(name, i, names, slots, mods) ==
    [name |-> name, type |-> "MESH",
     data |-> [vertices  |-> Shape(i).vertices,
               loops     |-> Shape(i).loops,
               polygons  |-> Shape(i).polygons,
               uv_layers |-> StartLayers(names, Len(Shape(i).loops)),
               energy    |-> 0],
     material_slots |-> slots, modifiers |-> mods,
     hide_viewport |-> FALSE, hide_render |-> FALSE]

LightObject(name, energy) ==
    [name |-> name, type |-> "LIGHT",
     data |-> [vertices |-> <<>>, loops |-> <<>>, polygons |-> <<>>,
               uv_layers |-> <<>>, energy |-> energy],
     material_slots |-> <<>>, modifiers |-> <<>>,
     hide_viewport |-> FALSE, hide_render |-> FALSE]

Material(nodes) == [use_nodes |-> TRUE, nodes |-> nodes, active_node |-> 0]

\* sequences over S of length lo..hi
SeqsOf(S, lo, hi) == UNION {[1..n -> S] : n \in lo..hi}

\* A light source of a scene: a lamp or an emissive mesh, in Lights_ON, in
\* Lights_OFF or in both.
SourceOptions ==
    {s \in [kind : {"LIGHT", "MESH"}, on : BOOLEAN, off : BOOLEAN, dark : {FALSE}] :
        s.on \/ s.off}
    \cup {[kind |-> "LIGHT", on |-> FALSE, off |-> TRUE, dark |-> TRUE]}

DefaultSources ==
    << [kind |-> "LIGHT", on |-> TRUE, off |-> FALSE, dark |-> FALSE],
       [kind |-> "LIGHT", on |-> FALSE, off |-> TRUE, dark |-> FALSE] >>

\* an emissive mesh in Lights_ON and a lamp in Lights_OFF
GlowSources ==
    << [kind |-> "MESH", on |-> TRUE, off |-> FALSE, dark |-> FALSE],
       [kind |-> "LIGHT", on |-> FALSE, off |-> TRUE, dark |-> FALSE] >>

ModStacks ==
    { << [show_viewport |-> TRUE, raises |-> FALSE, shift |-> 7] >>,
      << [show_viewport |-> FALSE, raises |-> FALSE, shift |-> 7] >>,
      << [show_viewport |-> TRUE, raises |-> TRUE, shift |-> 7],
         [show_viewport |-> TRUE, raises |-> FALSE, shift |-> 20] >>,
      << [show_viewport |-> TRUE, raises |-> FALSE, shift |-> 7],
         [show_viewport |-> FALSE, raises |-> FALSE, shift |-> 11],
         [show_viewport |-> TRUE, raises |-> TRUE, shift |-> 20] >> }

\* the modifier of the second mesh of a scene whose first mesh has modifiers
SECOND_STACK == << [show_viewport |-> TRUE, raises |-> FALSE, shift |-> 3] >>

\* The meshes of a scene have no material, or all the one material 'Wall', in
\* one slot or in two slots (shared, twice).
\* Where the two light collections are: both linked to the scene itself,
\* both direct children of Mansion, both inside a collection that is a child
\* of Mansion, or one or both absent from the document.
LightLayouts == {"top", "children", "nested", "no_on", "no_off", "none"}

LIGHTS_PARENT == "Lights"

Scenes ==
    \* the meshes of the Mansion collection vary
    {[meshes |-> m, shared |-> b[1], twice |-> b[2], sources |-> DefaultSources,
      mods |-> <<>>, mansion |-> TRUE, lights |-> "top"] :
        m \in SeqsOf(UVConfigs, 0, MaxObjects),
        b \in {<<FALSE, FALSE>>, <<TRUE, FALSE>>, <<TRUE, TRUE>>}}
    \* the light sources vary
    \cup {[meshes |-> << <<UVMAP_NAME>> >>, shared |-> FALSE, twice |-> FALSE, sources |-> src, mods |-> <<>>,
           mansion |-> TRUE, lights |-> "top"] :
        src \in SeqsOf(SourceOptions, 1, MaxSources)}
    \* the modifier stack of the first mesh varies
    \cup {[meshes |-> m, shared |-> FALSE, twice |-> FALSE, sources |-> DefaultSources, mods |-> md,
           mansion |-> TRUE, lights |-> "top"] :
        m \in {<< <<UVMAP_NAME>> >>, << <<UVMAP_NAME>>, <<UVMAP_NAME>> >>}, md \in ModStacks}
    \* a collection is missing
    \cup {[meshes |-> m, shared |-> FALSE, twice |-> FALSE, sources |-> src,
           mods |-> <<>>, mansion |-> mn, lights |-> lt] :
        m \in SeqsOf({<<UVMAP_NAME>>}, 0, MaxObjects), src \in {DefaultSources, GlowSources},
        mn \in BOOLEAN, lt \in LightLayouts}

MeshId(i) == i
SourceId(i) == MaxObjects + 1 + i
SHARED_MATERIAL == Name("Wall")
EmitMaterial(i) == <<"Emit", i>>
SourceEnergy(sc, i) == IF sc.sources[i].dark THEN 0 ELSE 100 * i

SceneObjects(sc) ==
    LET nm == Len(sc.meshes)
        ns == Len(sc.sources)
    IN [o \in {MeshId(i) : i \in 1..nm} \cup {SourceId(i) : i \in 1..ns} |->
          IF o <= nm
          THEN MeshObject(<<"Wall", o - 1>>, o, sc.meshes[o],
                          IF ~sc.shared THEN <<>>
                          ELSE IF sc.twice THEN <<SHARED_MATERIAL, SHARED_MATERIAL>>
                          ELSE <<SHARED_MATERIAL>>,
                          IF o = 1 THEN sc.mods
                          ELSE IF sc.mods # <<>> THEN SECOND_STACK ELSE <<>>)
          ELSE LET i == o - MaxObjects - 1
               IN IF sc.sources[i].kind = "LIGHT"
                  THEN LightObject(<<"Lamp", i - 1>>, SourceEnergy(sc, i))
                  ELSE MeshObject(<<"Glow", i - 1>>, 1, <<UVMAP_NAME>>,
                                  <<EmitMaterial(i)>>, <<>>)]

SceneMaterials(sc) ==
    LET emit == {i \in 1..Len(sc.sources) : sc.sources[i].kind = "MESH"}
        names == {EmitMaterial(i) : i \in emit}
                    \cup (IF sc.shared THEN {SHARED_MATERIAL} ELSE {})
    IN [m \in names |->
          IF m = SHARED_MATERIAL THEN Material(DefaultNodes)
          ELSE Material(<< [type |-> "EMISSION", strength |-> 100 * m[2], image |-> NoImage] >>)]

SceneCollections(sc) ==
    LET lightcolls ==
            (IF sc.lights \in {"no_on", "none"} THEN {} ELSE {LIGHTS_ON_COLLECTION_NAME})
            \cup (IF sc.lights \in {"no_off", "none"} THEN {} ELSE {LIGHTS_OFF_COLLECTION_NAME})
        lightseq == SelectSeq(<<LIGHTS_ON_COLLECTION_NAME, LIGHTS_OFF_COLLECTION_NAME>>,
                              LAMBDA c : c \in lightcolls)
        names == (IF sc.mansion THEN {MANSION_COLLECTION_NAME} ELSE {})
                    \cup lightcolls
                    \cup (IF sc.lights = "nested" THEN {LIGHTS_PARENT} ELSE {})
        src(on) == {SourceId(i) : i \in {j \in 1..Len(sc.sources) :
                        IF on THEN sc.sources[j].on ELSE sc.sources[j].off}}
    IN [c \in names |->
          [objects  |-> IF c = MANSION_COLLECTION_NAME
                        THEN {MeshId(i) : i \in 1..Len(sc.meshes)}
                        ELSE IF c = LIGHTS_PARENT THEN {}
                        ELSE src(c = LIGHTS_ON_COLLECTION_NAME),
           children |-> IF c = MANSION_COLLECTION_NAME /\ sc.lights = "children"
                        THEN lightseq
                        ELSE IF c = MANSION_COLLECTION_NAME /\ sc.lights = "nested"
                        THEN <<LIGHTS_PARENT>>
                        ELSE IF c = LIGHTS_PARENT THEN lightseq
                        ELSE <<>>]]

Init ==
    \E sc \in Scenes :
        /\ pc = "start"
        /\ objects = SceneObjects(sc)
        /\ materials = SceneMaterials(sc)
        /\ collections = SceneCollections(sc)
        /\ images = {}
        /\ selected = {}
        /\ active = NoObject
        /\ mansion_objects = <<>>
        /\ joined_mansion = <<>>
        /\ original_objects = <<>>
        /\ lights_on = NoCollection
        /\ lights_off = NoCollection
        /\ image_name = NoImage
        /\ original_light_energies = <<>>
        /\ original_emission_strengths = <<>>
        /\ baked = {}
        /\ saved = FALSE
        /\ exported = "no"
        /\ scene0 = [objects |-> SceneObjects(sc), materials |-> SceneMaterials(sc),
                     collections |-> SceneCollections(sc)]
        /\ mode = "OBJECT"
        /\ log = <<>>

\* ------------------------------------- fix_texture_uv_assignments (1098-1169)
\* Every node whose type compares equal to 'ShaderNodeTexImage' and has no
\* vector link gets a UV Map node set to 'UVMap'.
RECURSIVE UvMapNodesFor(_)
UvMapNodesFor(nodes) ==
    IF Len(nodes) = 0 THEN <<>>
    ELSE (IF Head(nodes).type = "ShaderNodeTexImage"
          THEN << [type |-> "UVMAP", strength |-> 0, image |-> NoImage] >> ELSE <<>>)
            \o UvMapNodesFor(Tail(nodes))

RECURSIVE FixSlots(_, _)
FixSlots(mats, slots) ==
    IF Len(slots) = 0 THEN mats
    ELSE LET m == Head(slots)
         IN FixSlots(IF m # NoMaterial /\ mats[m].use_nodes
                     THEN [mats EXCEPT ![m].nodes = @ \o UvMapNodesFor(@)] ELSE mats,
                     Tail(slots))

\* variant: the final check also drops the image nodes of the lightmaps
fix_texture_uv_assignments_Strip(objs, mats, list) ==
    [m \in DOMAIN mats |->
        [mats[m] EXCEPT !.nodes = SelectSeq(@, LAMBDA n : ~LightmapImage(n.image))]]

RECURSIVE fix_texture_uv_assignments(_, _, _)
fix_texture_uv_assignments(objs, mats, list) ==
    IF Len(list) = 0 THEN mats
    ELSE fix_texture_uv_assignments(
            objs,
            IF objs[Head(list)].type = "MESH"
            THEN FixSlots(mats, objs[Head(list)].material_slots) ELSE mats,
            Tail(list))

\* ------------------------------------------------------ main (1172-1315)
\* lines 1177-1181
Collect ==
    /\ pc = "start"
    /\ selected' = {}
    /\ mansion_objects' = get_all_mesh_objects_in_collection(MANSION_COLLECTION_NAME)
    /\ pc' = IF Len(mansion_objects') = 0 THEN "returned_no_meshes" ELSE "ensure_uv1"
    /\ UNCHANGED <<objects, materials, collections, images, active, joined_mansion,
                   original_objects, lights_on, lights_off, image_name,
                   original_light_energies, original_emission_strengths, baked,
                   saved, exported, scene0, mode, log>>

\* line 1184
EnsureUv1 ==
    /\ pc = "ensure_uv1"
    /\ objects' = ensure_uv1_exists(objects, mansion_objects)
    /\ pc' = "apply_modifiers"
    /\ UNCHANGED <<materials, collections, images, selected, active, mansion_objects,
                   joined_mansion, original_objects, lights_on, lights_off, image_name,
                   original_light_energies, original_emission_strengths, baked,
                   saved, exported, scene0, mode, log>>

\* line 1189
ApplyModifiers ==
    /\ pc = "apply_modifiers"
    /\ objects' = apply_modifiers(objects, mansion_objects)
    /\ log' = log \o ModifierErrors(objects, mansion_objects)
    /\ selected' = {}
    /\ active' = mansion_objects[Len(mansion_objects)]
    /\ pc' = "join"
    /\ UNCHANGED <<materials, collections, images, mansion_objects,
                   joined_mansion, original_objects, lights_on, lights_off, image_name,
                   original_light_energies, original_emission_strengths, baked,
                   saved, exported, scene0, mode>>

\* variant: a single object is duplicated and renamed like several
JoinSkip_Duplicates ==
    /\ pc = "join"
    /\ Len(mansion_objects) <= 1
    /\ LET ids == DupIds(objects, Range(mansion_objects))
       IN /\ objects' = JoinDuplicates(objects, mansion_objects)
          /\ collections' = MoveToBaker(DuplicateLinks(collections, mansion_objects, ids),
                                        ids[1], DOMAIN objects')
          /\ joined_mansion' = <<ids[1]>>
    /\ original_objects' = mansion_objects
    /\ pc' = "cleanup"
    /\ UNCHANGED <<materials, images, selected, active,
                   mansion_objects, lights_on, lights_off, image_name,
                   original_light_energies, original_emission_strengths, baked,
                   saved, exported, scene0, mode, log>>

\* line 1190, join_objects lines 204-206: a single object is returned as both
JoinSkip ==
    /\ pc = "join"
    /\ Len(mansion_objects) <= 1
    /\ joined_mansion' = mansion_objects
    /\ original_objects' = mansion_objects
    /\ pc' = "cleanup"
    /\ UNCHANGED <<objects, materials, collections, images, selected, active,
                   mansion_objects, lights_on, lights_off, image_name,
                   original_light_energies, original_emission_strengths, baked,
                   saved, exported, scene0, mode, log>>

\* line 1190, join_objects lines 208-272
JoinObjects ==
    /\ pc = "join"
    /\ Len(mansion_objects) > 1
    /\ LET sel == Range(mansion_objects)
           src == SetToSeq(sel)
           ids == DupIds(objects, sel)
           j   == ids[1]
       IN /\ objects' = JoinDuplicates(objects, mansion_objects)
          /\ collections' = MoveToBaker(DuplicateLinks(collections, src, ids), j,
                                        DOMAIN objects')
          /\ selected' = {j}
          /\ active' = j
          /\ joined_mansion' = <<j>>
    /\ original_objects' = mansion_objects
    /\ pc' = "cleanup"
    /\ UNCHANGED <<materials, images, mansion_objects, lights_on, lights_off, image_name,
                   original_light_energies, original_emission_strengths, baked,
                   saved, exported, scene0, mode, log>>

\* line 1191
CleanupMeshes ==
    /\ pc = "cleanup"
    /\ objects' = cleanup_meshes(objects, joined_mansion)
    /\ selected' = {}
    /\ active' = joined_mansion[1]
    /\ pc' = "setup_uvs"
    /\ UNCHANGED <<materials, collections, images, mansion_objects,
                   joined_mansion, original_objects, lights_on, lights_off, image_name,
                   original_light_energies, original_emission_strengths, baked,
                   saved, exported, scene0, mode, log>>

\* line 1196
SetupUvs ==
    /\ pc = "setup_uvs"
    /\ \E outcome \in UnwrapOutcomes, k \in 0..MaxLayouts :
          /\ outcome = "failed" => k = 0
          /\ objects' = setup_uvs(objects, joined_mansion, outcome, k)
          /\ log' = log \o UnwrapLog(outcome)
                        \o CoverageLog(objects'[joined_mansion[1]].data.uv_layers)
    /\ mode' = "OBJECT"
    /\ selected' = {}
    /\ active' = joined_mansion[1]
    /\ pc' = "export_uv_layout"
    /\ UNCHANGED <<materials, collections, images, mansion_objects,
                   joined_mansion, original_objects, lights_on, lights_off, image_name,
                   original_light_energies, original_emission_strengths, baked,
                   saved, exported, scene0>>

\* lines 1200-1201
ExportUvLayouts ==
    /\ pc = "export_uv_layout"
    /\ objects' = ExportUvLayout(ExportUvLayout(objects, joined_mansion[1], UVMAP_NAME),
                                 joined_mansion[1], LIGHTMAP_UV_NAME)
    /\ selected' = Selectable(objects, {joined_mansion[1]})
    /\ active' = joined_mansion[1]
    /\ pc' = "find_lights"
    /\ UNCHANGED <<materials, collections, images, mansion_objects,
                   joined_mansion, original_objects, lights_on, lights_off, image_name,
                   original_light_energies, original_emission_strengths, baked,
                   saved, exported, scene0, mode, log>>

\* lines 1209-1220: bpy.data.collections.get, then the children of Mansion
FindCollection(name) ==
    IF name \in DOMAIN collections THEN name
    ELSE IF MANSION_COLLECTION_NAME \in DOMAIN collections
            /\ name \in Range(collections[MANSION_COLLECTION_NAME].children)
         THEN name
         ELSE NoCollection

\* variant: main returns only when both collections are missing
FindLights_Either ==
    /\ pc = "find_lights"
    /\ lights_on' = FindCollection(LIGHTS_ON_COLLECTION_NAME)
    /\ lights_off' = FindCollection(LIGHTS_OFF_COLLECTION_NAME)
    /\ pc' = IF lights_on' = NoCollection /\ lights_off' = NoCollection
             THEN "returned_no_lights" ELSE "bake_on"
    /\ log' = Append(log, IF pc' = "returned_no_lights" THEN "lights_not_found"
                          ELSE "found_light_collections")
    /\ UNCHANGED <<objects, materials, collections, images, selected, active,
                   mansion_objects, joined_mansion, original_objects, image_name,
                   original_light_energies, original_emission_strengths, baked,
                   saved, exported, scene0, mode>>

\* lines 1209-1227
FindLights ==
    /\ pc = "find_lights"
    /\ lights_on' = FindCollection(LIGHTS_ON_COLLECTION_NAME)
    /\ lights_off' = FindCollection(LIGHTS_OFF_COLLECTION_NAME)
    /\ pc' = IF lights_on' = NoCollection \/ lights_off' = NoCollection
             THEN "returned_no_lights" ELSE "bake_on"
    /\ log' = Append(log, IF pc' = "returned_no_lights" THEN "lights_not_found"
                          ELSE "found_light_collections")
    /\ UNCHANGED <<objects, materials, collections, images, selected, active,
                   mansion_objects, joined_mansion, original_objects, image_name,
                   original_light_energies, original_emission_strengths, baked,
                   saved, exported, scene0, mode>>

\* perform_bake lines 918-1080: everything up to the bake operator
PerformBakePrepare ==
    /\ pc \in {"bake_on", "bake_off"}
    /\ LET name == IF pc = "bake_on" THEN IMAGE_ON ELSE IMAGE_OFF
           st   == ConfigureLights(objects, materials, collections, name,
                                   lights_on, lights_off)
           obj  == joined_mansion[1]
           mat  == NewMaterialName(st.mats)
           bare == Len(st.objs[obj].material_slots) = 0
           mats == IF bare
                   THEN [m \in DOMAIN st.mats \cup {mat} |->
                            IF m = mat THEN Material(DefaultNodes) ELSE st.mats[m]]
                   ELSE st.mats
           objs == IF bare THEN [st.objs EXCEPT ![obj].material_slots = <<mat>>]
                   ELSE st.objs
       IN /\ image_name' = name
          /\ original_light_energies' = st.le
          /\ original_emission_strengths' = st.es
          /\ images' = images \cup {name}
          /\ objects' = objs
          /\ materials' = AssignImageNodes(mats, objs[obj].material_slots, name)
          /\ selected' = Selectable(objs, {obj})
          /\ active' = obj
    /\ pc' = IF pc = "bake_on" THEN "baking_on" ELSE "baking_off"
    /\ UNCHANGED <<collections, mansion_objects, joined_mansion, original_objects,
                   lights_on, lights_off, baked, saved, exported, scene0, mode, log>>

\* variant: the lights-off bake is skipped
PerformBakeRun_SkipOff ==
    /\ pc \in {"baking_on", "baking_off"}
    /\ baked' = baked \cup {image_name}
    /\ pc' = "transfer"
    /\ UNCHANGED <<objects, materials, collections, images, selected, active,
                   mansion_objects, joined_mansion, original_objects, lights_on,
                   lights_off, image_name, original_light_energies,
                   original_emission_strengths, saved, exported, scene0, mode, log>>

\* perform_bake lines 1085-1095: the bake operator runs, the image is saved
PerformBakeRun ==
    /\ pc \in {"baking_on", "baking_off"}
    /\ baked' = baked \cup {image_name}
    /\ pc' = IF pc = "baking_on" THEN "bake_off" ELSE "transfer"
    /\ UNCHANGED <<objects, materials, collections, images, selected, active,
                   mansion_objects, joined_mansion, original_objects, lights_on,
                   lights_off, image_name, original_light_energies,
                   original_emission_strengths, saved, exported, scene0, mode, log>>

\* line 1235
TransferUvs ==
    /\ pc = "transfer"
    /\ objects' = transfer_lightmap_uvs_fast(objects, joined_mansion[1], original_objects)
    /\ pc' = "verify"
    /\ UNCHANGED <<materials, collections, images, selected, active, mansion_objects,
                   joined_mansion, original_objects, lights_on, lights_off, image_name,
                   original_light_energies, original_emission_strengths, baked,
                   saved, exported, scene0, mode, log>>

\* line 1256
VerifyUv2 ==
    /\ pc = "verify"
    /\ objects' = verify_and_fix_uv2(objects, original_objects)
    /\ pc' = "hide"
    /\ UNCHANGED <<materials, collections, images, selected, active, mansion_objects,
                   joined_mansion, original_objects, lights_on, lights_off, image_name,
                   original_light_energies, original_emission_strengths, baked,
                   saved, exported, scene0, mode, log>>

\* lines 1259-1260
HideBaker ==
    /\ pc = "hide"
    /\ objects' = [objects EXCEPT ![joined_mansion[1]].hide_viewport = TRUE,
                                  ![joined_mansion[1]].hide_render = TRUE]
    /\ selected' = selected \ {joined_mansion[1]}
    /\ pc' = "save"
    /\ UNCHANGED <<materials, collections, images, active, mansion_objects,
                   joined_mansion, original_objects, lights_on, lights_off, image_name,
                   original_light_energies, original_emission_strengths, baked,
                   saved, exported, scene0, mode, log>>

\* lines 1265-1271: save_mainfile, an exception is logged
SaveFile ==
    /\ pc = "save"
    /\ \E ok \in BOOLEAN :
          /\ saved' = ok
          /\ log' = Append(log, IF ok THEN "saved" ELSE "save_warning")
    /\ pc' = "fix_uv_assignments"
    /\ UNCHANGED <<objects, materials, collections, images, selected, active,
                   mansion_objects, joined_mansion, original_objects, lights_on,
                   lights_off, image_name, original_light_energies,
                   original_emission_strengths, baked, exported, scene0, mode>>

\* line 1276
FixTextureUvAssignments ==
    /\ pc = "fix_uv_assignments"
    /\ materials' = fix_texture_uv_assignments(objects, materials, original_objects)
    /\ pc' = "export"
    /\ UNCHANGED <<objects, collections, images, selected, active,
                   mansion_objects, joined_mansion, original_objects, lights_on,
                   lights_off, image_name, original_light_energies,
                   original_emission_strengths, baked, saved, exported, scene0, mode, log>>

\* variant: no completion line is written after a failed export
CompletionLog_OnSuccess(export_success) ==
    IF export_success THEN <<"all_tasks_completed", "glb_exported_success">> ELSE <<>>

\* main lines 1285-1292: the completion lines, with the value
\* export_mansion_glb returned
CompletionLog(export_success) ==
    <<"all_tasks_completed">>
    \o (IF AUTO_EXPORT_GLB
        THEN <<IF export_success THEN "glb_exported_success" ELSE "glb_exported_failed">>
        ELSE <<>>)

\* lines 1279-1315 and export_mansion_glb: the exporter returns or raises,
\* main logs the completion lines and ends
ExportGlb ==
    /\ pc = "export"
    /\ IF AUTO_EXPORT_GLB /\ MANSION_COLLECTION_NAME \in DOMAIN collections
       THEN LET all == all_objects(collections, MANSION_COLLECTION_NAME)
            IN /\ materials' = clean_lightmap_nodes_from_materials(
                                    objects, materials, SetToSeq(all))
               /\ selected' = Selectable(objects, all)
               /\ \E ok \in BOOLEAN :
                     /\ exported' = IF ok THEN "ok" ELSE "failed"
                     /\ log' = Append(log, IF ok THEN "glb_exported" ELSE "export_failed")
                                   \o CompletionLog(ok)
       ELSE /\ exported' = IF AUTO_EXPORT_GLB THEN "failed" ELSE "no"
            /\ log' = Append(log, IF AUTO_EXPORT_GLB THEN "collection_not_found"
                                  ELSE "export_skipped")
                          \o CompletionLog(FALSE)
            /\ UNCHANGED <<materials, selected>>
    /\ pc' = "done"
    /\ UNCHANGED <<objects, collections, images, active,
                   mansion_objects, joined_mansion, original_objects, lights_on,
                   lights_off, image_name, original_light_energies,
                   original_emission_strengths, baked, saved, scene0, mode>>

Next ==
    \/ Collect
    \/ EnsureUv1
    \/ ApplyModifiers
    \/ JoinSkip
    \/ JoinObjects
    \/ CleanupMeshes
    \/ SetupUvs
    \/ ExportUvLayouts
    \/ FindLights
    \/ PerformBakePrepare
    \/ PerformBakeRun
    \/ TransferUvs
    \/ VerifyUv2
    \/ HideBaker
    \/ SaveFile
    \/ FixTextureUvAssignments
    \/ ExportGlb

Spec == Init /\ [][Next]_vars

\* ------------------------------------------------- claims on the light setup
\* the value an object of the starting scene had, by object name
StartEnergy(name) ==
    LET o == CHOOSE x \in DOMAIN scene0.objects : scene0.objects[x].name = name
    IN scene0.objects[o].data.energy

StartStrength(key) ==
    LET o == CHOOSE x \in DOMAIN scene0.objects : scene0.objects[x].name = key[1]
    IN scene0.materials[scene0.objects[o].material_slots[key[2]]].nodes[key[3]].strength

\* the light sources that are in one of the two light collections only
OnlyIn(c, d) == all_objects(collections, c) \ all_objects(collections, d)

\* light source o shows its starting values (lit) or zero (not lit)
Shows(o, lit) ==
    /\ objects[o].type = "LIGHT" =>
          objects[o].data.energy = (IF lit THEN scene0.objects[o].data.energy ELSE 0)
    /\ objects[o].type = "MESH" =>
          \A s \in 1..Len(objects[o].material_slots) :
             LET m == objects[o].material_slots[s]
             IN \A n \in 1..Len(scene0.materials[m].nodes) :
                   materials[m].nodes[n].type = "EMISSION" =>
                      materials[m].nodes[n].strength =
                         (IF lit THEN scene0.materials[m].nodes[n].strength ELSE 0)

\* C1: every value perform_bake holds as the 'original' energy of a light or
\* the 'original' strength of an emission node is the value the scene had
\* before the pipeline changed it, in the first bake and in the second.
C1_OriginalsRecordedBeforeZeroing ==
    /\ \A name \in DOMAIN original_light_energies :
          original_light_energies[name] = StartEnergy(name)
    /\ \A key \in DOMAIN original_emission_strengths :
          original_emission_strengths[key] = StartStrength(key)

\* C2: when the bake operator runs, the sources that are in Lights_ON only
\* show their original values and those in Lights_OFF only show zero for the
\* 'On' image, and the other way round for the 'Off' image.
C2_LightsSwappedAtEachBake ==
    /\ pc = "baking_on" =>
          /\ \A o \in OnlyIn(lights_on, lights_off) : Shows(o, TRUE)
          /\ \A o \in OnlyIn(lights_off, lights_on) : Shows(o, FALSE)
    /\ pc = "baking_off" =>
          /\ \A o \in OnlyIn(lights_off, lights_on) : Shows(o, TRUE)
          /\ \A o \in OnlyIn(lights_on, lights_off) : Shows(o, FALSE)

\* ------------------------------------------------------ claims on the join
\* C3: join_objects with more than one source leaves every source as it was
\* (the object with its name, mesh and UV layers, and its collections), makes
\* one new object named 'Mansion_Lightmap_Baker', and returns it together
\* with the source list.
C3_JoinLeavesSources ==
    [][(pc = "join" /\ Len(mansion_objects) > 1) =>
          /\ \A o \in Range(mansion_objects) :
                /\ o \in DOMAIN objects'
                /\ objects'[o] = objects[o]
                /\ \A c \in DOMAIN collections :
                      o \in collections[c].objects =>
                         c \in DOMAIN collections' /\ o \in collections'[c].objects
          /\ original_objects' = mansion_objects
          /\ Len(joined_mansion') = 1
          /\ joined_mansion'[1] \notin DOMAIN objects
          /\ DOMAIN objects' = DOMAIN objects \cup {joined_mansion'[1]}
          /\ objects'[joined_mansion'[1]].name = BAKER_OBJECT_NAME]_vars

C3_Witness ==
    /\ pc = "cleanup"
    /\ Len(original_objects) > 1
    /\ joined_mansion[1] \notin Range(original_objects)
    /\ Len(objects[joined_mansion[1]].data.loops)
          = Len(objects[original_objects[1]].data.loops)
               + Len(objects[original_objects[2]].data.loops)

\* C4: when main is about to save, the bake target is not an object of the
\* Mansion collection or of a collection below it, the bake target is hidden,
\* and no original object is hidden.
C4_OnlyBakeTargetHidden ==
    pc = "save" =>
        /\ joined_mansion[1] \notin all_objects(collections, MANSION_COLLECTION_NAME)
        /\ objects[joined_mansion[1]].hide_viewport
        /\ objects[joined_mansion[1]].hide_render
        /\ \A o \in Range(original_objects) :
              ~objects[o].hide_viewport /\ ~objects[o].hide_render

\* the name of the base channel of original o: the layer at index 0 when main
\* started, 'UVMap' when it had none
BaseName(o) ==
    IF Len(scene0.objects[o].data.uv_layers) = 0 THEN UVMAP_NAME
    ELSE scene0.objects[o].data.uv_layers[1].name

\* C5: when main has run to its end, every original has exactly two UV
\* layers: its base layer at index 0 and one layer named 'LightmapUV'.
C5_OriginalsEndWithTwoChannels ==
    pc = "done" =>
        \A o \in Range(original_objects) :
            /\ Len(objects[o].data.uv_layers) = 2
            /\ objects[o].data.uv_layers[1].name = BaseName(o)
            /\ objects[o].data.uv_layers[2].name = LIGHTMAP_UV_NAME

\* ------------------------------------------------- claims on the UV transfer
\* the coordinates of the layer named 'LightmapUV' of object o
LightmapData(objs, o) ==
    objs[o].data.uv_layers[LayerIndex(objs[o].data.uv_layers, LIGHTMAP_UV_NAME)].data

\* the places, in polygon/loop order of the mesh of m, of the loops whose
\* rounded position is key
Hits(objs, m, key) ==
    LET order == LoopOrder(objs[m].data.polygons)
    IN {n \in 1..Len(order) : LoopKey(objs[m].data, order[n]) = key}


\* C7: after the transfer, a loop of an original whose rounded position is
\* the rounded position of a loop vertex of the merged mesh carries, in
\* 'LightmapUV', the coordinate of the first loop of the merged mesh (polygon
\* order, then loop order) at that rounded position.
C7_TransferCopiesFirstMatch ==
    pc = "verify" =>
        LET m     == joined_mansion[1]
            order == LoopOrder(objects[m].data.polygons)
        IN \A o \in Range(original_objects) :
              \A l \in 1..Len(objects[o].data.loops) :
                 LET hits == Hits(objects, m, LoopKey(objects[o].data, l))
                 IN hits # {} =>
                       LightmapData(objects, o)[l]
                          = LightmapData(objects, m)[order[Min(hits)]]

\* an original loop meets two merged loops that carry different coordinates
C7_Witness ==
    /\ pc = "verify"
    /\ Len(original_objects) > 1
    /\ LET m     == joined_mansion[1]
           order == LoopOrder(objects[m].data.polygons)
       IN \E o \in Range(original_objects) :
             \E l \in 1..Len(objects[o].data.loops) :
                LET hits == Hits(objects, m, LoopKey(objects[o].data, l))
                IN /\ \E a \in hits, b \in hits :
                         LightmapData(objects, m)[order[a]]
                            # LightmapData(objects, m)[order[b]]
                   /\ LightmapData(objects, o)[l]
                         = LightmapData(objects, m)[order[Min(hits)]]
                   /\ LightmapData(objects, o)[l] # DefaultUV

\* C8: the transfer leaves the 'LightmapUV' coordinate of an original's loop
\* whose rounded position is not in the lookup table as it was, and leaves
\* the merged object as it was.
C8_TransferFrame ==
    [][pc = "transfer" =>
          LET m == joined_mansion[1]
          IN /\ \A o \in Range(original_objects) :
                   HasLayer(objects[o].data.uv_layers, LIGHTMAP_UV_NAME) =>
                      \A l \in 1..Len(objects[o].data.loops) :
                         Hits(objects, m, LoopKey(objects[o].data, l)) = {} =>
                            LightmapData(objects', o)[l] = LightmapData(objects, o)[l]
             /\ objects'[m] = objects[m]]_vars

\* ------------------------------------------- the transfer called twice
\* main up to the transfer, then transfer_lightmap_uvs_fast once more with
\* the same arguments
TransferAgain ==
    /\ pc = "verify"
    /\ objects' = transfer_lightmap_uvs_fast(objects, joined_mansion[1], original_objects)
    /\ pc' = "transferred_twice"
    /\ UNCHANGED <<materials, collections, images, selected, active, mansion_objects,
                   joined_mansion, original_objects, lights_on, lights_off, image_name,
                   original_light_energies, original_emission_strengths, baked,
                   saved, exported, scene0, mode, log>>

NextTransferTwice ==
    \/ Collect
    \/ EnsureUv1
    \/ ApplyModifiers
    \/ JoinSkip
    \/ JoinObjects
    \/ CleanupMeshes
    \/ SetupUvs
    \/ ExportUvLayouts
    \/ FindLights
    \/ PerformBakePrepare
    \/ PerformBakeRun
    \/ TransferUvs
    \/ TransferAgain

SpecTransferTwice == Init /\ [][NextTransferTwice]_vars

\* C9: a second transfer from the same merged mesh onto the same originals
\* leaves the UV layers of every original (names, number, coordinates, flags)
\* as the first transfer left them.
C9_TransferIdempotent ==
    [][(pc = "verify" /\ pc' = "transferred_twice") =>
          \A o \in Range(original_objects) :
             objects'[o].data.uv_layers = objects[o].data.uv_layers]_vars

\* the second transfer has run on originals the first one wrote coordinates to
C9_Witness ==
    /\ pc = "transferred_twice"
    /\ Len(original_objects) > 1
    /\ \E o \in Range(original_objects) :
          /\ ~HasLayer(scene0.objects[o].data.uv_layers, LIGHTMAP_UV_NAME)
          /\ \E l \in 1..Len(objects[o].data.loops) :
                LightmapData(objects, o)[l] # DefaultUV

\* --------------------------------------- verify_and_fix_uv2 called alone
\* verify_and_fix_uv2 on the mesh objects of the Mansion collection as the
\* scene stands when the script starts
VerifyCall ==
    /\ pc = "start"
    /\ original_objects' = get_all_mesh_objects_in_collection(MANSION_COLLECTION_NAME)
    /\ objects' = verify_and_fix_uv2(objects, original_objects')
    /\ pc' = "verified"
    /\ UNCHANGED <<materials, collections, images, selected, active, mansion_objects,
                   joined_mansion, lights_on, lights_off, image_name,
                   original_light_energies, original_emission_strengths, baked,
                   saved, exported, scene0, mode, log>>

NextVerify == VerifyCall

SpecVerify == Init /\ [][NextVerify]_vars

\* what verify_and_fix_uv2 owes to an object with layers before and after
VerifiedLayers(before, after) ==
    /\ HasLayer(after, LIGHTMAP_UV_NAME)
    /\ after[LayerIndex(after, LIGHTMAP_UV_NAME)].active_render
    /\ ~HasLayer(before, LIGHTMAP_UV_NAME) =>
          /\ Len(before) > 0
          /\ \A l \in 1..Len(before[1].data) :
                after[LayerIndex(after, LIGHTMAP_UV_NAME)].data[l] = before[1].data[l]
          /\ after[1].name = before[1].name
          /\ after[1].data = before[1].data

NormalizeSetupUvs ==
    /\ pc = "start"
    /\ \E o \in {x \in DOMAIN objects : IsMesh(x)},
          outcome \in UnwrapOutcomes, k \in 0..MaxLayouts :
          /\ outcome = "failed" => k = 0
          /\ objects' = setup_uvs(objects, <<o>>, outcome, k)
          /\ log' = log \o UnwrapLog(outcome) \o CoverageLog(objects'[o].data.uv_layers)
          /\ joined_mansion' = <<o>>
          /\ active' = o
    /\ selected' = {}
    /\ mode' = "OBJECT"
    /\ pc' = "normalized"
    /\ UNCHANGED <<materials, collections, images, mansion_objects, original_objects,
                   lights_on, lights_off, image_name, original_light_energies,
                   original_emission_strengths, baked, saved, exported, scene0>>

\* unwrap_original_objects on every object of the starting scene
NormalizeUnwrapOriginals ==
    /\ pc = "start"
    /\ DOMAIN objects # {}
    /\ original_objects' = SetToSeq(DOMAIN objects)
    /\ \E outcome \in {"primary", "failed"}, k \in 0..MaxLayouts :
          /\ outcome = "failed" => k = 0
          /\ objects' = unwrap_original_objects(objects, original_objects', outcome, k)
    /\ selected' = {}
    /\ active' = Max({x \in DOMAIN objects : IsMesh(x)} \cup {NoObject})
    /\ pc' = "normalized"
    /\ UNCHANGED <<materials, collections, images, mansion_objects, joined_mansion,
                   lights_on, lights_off, image_name, original_light_energies,
                   original_emission_strengths, baked, saved, exported, scene0, mode, log>>

NextNormalize ==
    \/ NormalizeSetupUvs
    \/ NormalizeUnwrapOriginals

SpecNormalize == Init /\ [][NextNormalize]_vars

\* the meshes the normalization has processed
Normalized ==
    Range(joined_mansion) \cup {o \in Range(original_objects) : IsMesh(o)}

\* C6: a mesh the normalization has processed has two UV layers and no more:
\* the layer it had at index 0 ('UVMap' when it had none), then a layer named
\* 'LightmapUV' that is the active and the active-render layer.
C6_NormalizedChannels ==
    pc = "normalized" =>
        \A o \in Normalized :
            LET before == scene0.objects[o].data.uv_layers
                after  == objects[o].data.uv_layers
            IN /\ Len(after) = 2
               /\ after[1].name = BaseName(o)
               /\ Len(before) > 0 => after[1].data = before[1].data
               /\ after[2].name = LIGHTMAP_UV_NAME
               /\ after[2].active /\ after[2].active_render
               /\ ~after[1].active /\ ~after[1].active_render

\* ------------------------------------------------- claims on the export
\* C11: when export_mansion_glb has called the glTF exporter, no node
\* material of an object of the Mansion collection (or below it) holds an
\* image-texture node whose image is a baked lightmap image.
C11_NoLightmapNodesAtExport ==
    (pc = "done" /\ exported \in {"ok", "failed"}) =>
        \A o \in all_objects(collections, MANSION_COLLECTION_NAME) :
            \A s \in 1..Len(objects[o].material_slots) :
                LET m == objects[o].material_slots[s]
                IN (m # NoMaterial /\ materials[m].use_nodes) =>
                      \A n \in 1..Len(materials[m].nodes) :
                         ~(/\ materials[m].nodes[n].type = "TEX_IMAGE"
                           /\ LightmapImage(materials[m].nodes[n].image))

\* the originals started with one UV layer each, none named 'LightmapUV'
OneBaseChannelEach ==
    \A o \in Range(original_objects) :
        /\ Len(scene0.objects[o].data.uv_layers) = 1
        /\ scene0.objects[o].data.uv_layers[1].name # LIGHTMAP_UV_NAME

\* C12: when main has run to its end on originals that had one base UV layer
\* and no lightmap layer, every original is still in the Mansion collection
\* with the positions, loops, polygons and base UV coordinates it started with.
C12_OriginalsKeepGeometry ==
    (pc = "done" /\ OneBaseChannelEach) =>
        \A o \in Range(original_objects) :
            /\ o \in all_objects(collections, MANSION_COLLECTION_NAME)
            /\ objects[o].data.vertices = scene0.objects[o].data.vertices
            /\ objects[o].data.loops = scene0.objects[o].data.loops
            /\ objects[o].data.polygons = scene0.objects[o].data.polygons
            /\ objects[o].data.uv_layers[1].name = scene0.objects[o].data.uv_layers[1].name
            /\ objects[o].data.uv_layers[1].data = scene0.objects[o].data.uv_layers[1].data

\* C13: join_objects on a single object changes no object and no collection
\* and returns that object as the only element of both lists.
C13_JoinSingleIsNoOp ==
    [][(pc = "join" /\ Len(mansion_objects) = 1) =>
          /\ objects' = objects
          /\ collections' = collections
          /\ joined_mansion' = mansion_objects
          /\ original_objects' = mansion_objects
          /\ Len(joined_mansion') = 1]_vars

C13_Witness ==
    /\ pc = "cleanup"
    /\ Len(original_objects) = 1
    /\ joined_mansion = original_objects
    /\ BAKER_COLLECTION_NAME \notin DOMAIN collections


\* ---------------------------------------------------------------- C14
\* the positions of main() in the order of its statements (lines 1177-1283)
StageOrder ==
    <<"start", "ensure_uv1", "apply_modifiers", "join", "cleanup", "setup_uvs",
      "export_uv_layout", "find_lights", "bake_on", "baking_on", "bake_off",
      "baking_off", "transfer", "verify", "hide", "save", "fix_uv_assignments",
      "export", "done">>

\* the two return statements of lines 1181 and 1227
Returned == {"returned_no_meshes", "returned_no_lights"}

StageRank(p) ==
    IF p \in Returned THEN Len(StageOrder) + 1
    ELSE CHOOSE i \in 1..Len(StageOrder) : StageOrder[i] = p

UnwrapRan == \E i \in 1..Len(log) :
                log[i] \in {"smart_project_completed", "smart_project_failed"}

MansionMeshes ==
    IF MANSION_COLLECTION_NAME \notin DOMAIN collections THEN {}
    ELSE {o \in all_objects(collections, MANSION_COLLECTION_NAME) : IsMesh(o)}

\* C15: when the Mansion collection does not exist or holds no mesh object,
\* itself or in the collections below it, the first step of main returns and
\* leaves every object, material, collection and image as it was, with
\* nothing baked, saved or exported; nothing runs after that return; and
\* main returns there only in that case.
C15_NoMeshesReturns ==
    [][/\ (pc = "start" /\ MansionMeshes = {}) =>
              /\ pc' = "returned_no_meshes"
              /\ objects' = objects
              /\ materials' = materials
              /\ collections' = collections
              /\ images' = {}
              /\ baked' = {}
              /\ ~saved'
              /\ exported' = "no"
       /\ pc' = "returned_no_meshes" => (pc = "start" /\ MansionMeshes = {})
       /\ pc # "returned_no_meshes"]_vars

C15_Witness ==
    /\ pc = "returned_no_meshes"
    /\ MANSION_COLLECTION_NAME \in DOMAIN collections
    /\ \E o \in Ids : IsMesh(o)
    /\ objects = scene0.objects
    /\ baked = {}


\* ---------------------------------------------------------------- C16
\* c is linked to the scene itself: it is no collection's child
TopLevel(c) ==
    /\ c \in DOMAIN collections
    /\ \A d \in DOMAIN collections : c \notin Range(collections[d].children)

DirectChildOfMansion(c) ==
    /\ MANSION_COLLECTION_NAME \in DOMAIN collections
    /\ c \in Range(collections[MANSION_COLLECTION_NAME].children)

PastFindLights == pc \notin Returned /\ StageRank(pc) > StageRank("find_lights")

\* what main has done to the scene when it returns at line 1227: the
\* originals went through ensure_uv1_exists and apply_modifiers only (no
\* transfer, no verification), the bake target has its LightmapUV layer, the
\* unwrap ran and the target is not hidden; nothing is baked, saved, exported
PartiallyTransformed ==
    LET j     == joined_mansion[1]
        after == apply_modifiers(ensure_uv1_exists(scene0.objects, original_objects),
                                 original_objects)
    IN /\ Len(joined_mansion) = 1
       /\ \A o \in Range(original_objects) \ {j} : objects[o] = after[o]
       /\ \A o \in Range(original_objects) : objects[o].modifiers = after[o].modifiers
       /\ HasLayer(objects[j].data.uv_layers, LIGHTMAP_UV_NAME)
       /\ UnwrapRan
       /\ ~objects[j].hide_viewport /\ ~objects[j].hide_render
       /\ images = {} /\ baked = {} /\ ~saved /\ exported = "no"

\* the bake target is a merged object made by join_objects
MergedTargetCreated ==
    /\ joined_mansion[1] \notin DOMAIN scene0.objects
    /\ objects[joined_mansion[1]].name = BAKER_OBJECT_NAME

Logged == SubSeq(log', Len(log) + 1, Len(log'))

Count(s, x) == Cardinality({i \in 1..Len(s) : s[i] = x})

\* C17: in the step of setup_uvs the angle-based fallback is announced and
\* called once when smart_project or pack_islands raised and not at all when
\* both returned; it ends in exactly one of "completed" and "all methods
\* failed"; whatever the unwrap did, setup_uvs returns with the host in
\* OBJECT mode and main goes on with its next statement, towards the bakes.
C17_FallbackOnce ==
    [][pc = "setup_uvs" =>
          /\ Count(Logged, "trying_fallback")
                = (IF Count(Logged, "smart_project_failed") > 0 THEN 1 ELSE 0)
          /\ Count(Logged, "smart_project_failed") + Count(Logged, "packing_completed") = 1
          /\ Count(Logged, "basic_unwrap_completed") + Count(Logged, "all_unwrap_failed")
                = Count(Logged, "trying_fallback")
          /\ mode' = "OBJECT"
          /\ pc' = "export_uv_layout"]_vars

C17_Witness ==
    /\ pc = "baking_on"
    /\ Count(log, "trying_fallback") = 1
    /\ Count(log, "all_unwrap_failed") = 1
    /\ mode = "OBJECT"


\* ---------------------------------------------------------------- C18
\* C18: a failing save_mainfile is logged and main goes on to the texture
\* fix and the export; a failing exporter is logged, export_mansion_glb
\* returns False (reported as "GLB exported: Failed"), and main still writes
\* its completion lines and ends; when main has ended, every write failure
\* is in the log.
C18_WriteFailureNeverTerminates ==
    [][/\ pc = "save" =>
            /\ pc' = "fix_uv_assignments"
            /\ Logged = <<IF saved' THEN "saved" ELSE "save_warning">>
       /\ pc = "export" =>
            /\ pc' = "done"
            /\ Count(Logged, "all_tasks_completed") = 1
            /\ exported' = "failed" =>
                  /\ Logged[1] \in {"export_failed", "collection_not_found"}
                  /\ Logged[Len(Logged)] = "glb_exported_failed"
            /\ exported' = "ok" => Logged[Len(Logged)] = "glb_exported_success"
            /\ ~saved' => Count(log', "save_warning") = 1]_vars

C18_Witness ==
    /\ pc = "done"
    /\ ~saved
    /\ exported = "failed"
    /\ Count(log, "export_failed") = 1
    /\ Count(log, "all_tasks_completed") = 1


\* ------------------------------------------- the coverage checks, alone
\* The UV sets the checks are run on: every sequence of at most MaxUvs
\* coordinates over CoveragePoints, and sets of LongUvCount coordinates
\* (more than are sampled) whose odd places alternate between two of the
\* points and whose even places hold one of UnsampledPoints.
MaxUvs == 2

CoverageInputs ==
    LET CoverageAxis    == {-20, 0, 5, 30, 50, 100}
        CoveragePoints  == CoverageAxis \X CoverageAxis
        LongUvCount     == 2 * SAMPLE_LIMIT
        UnsampledPoints == {<<50, 50>>, <<100, 100>>}
    IN SeqsOf(CoveragePoints, 0, MaxUvs)
       \cup {[i \in 1..LongUvCount |->
                IF i % 4 = 1 THEN p ELSE IF i % 4 = 3 THEN r ELSE q] :
               p \in CoveragePoints, r \in CoveragePoints, q \in UnsampledPoints}

\* a mesh object of one polygon whose loops carry the coordinates data in
\* its LightmapUV layer
CoverageObject(data) ==
    LET n == Len(data)
    IN [name |-> BAKER_OBJECT_NAME, type |-> "MESH",
        data |-> [vertices  |-> [i \in 1..n |-> <<i * 1000000, 0, 0>>],
                  loops     |-> [i \in 1..n |-> i],
                  polygons  |-> IF n = 0 THEN <<>> ELSE << [i \in 1..n |-> i] >>,
                  uv_layers |-> << [name |-> UVMAP_NAME,
                                    data |-> [i \in 1..n |-> DefaultUV],
                                    active |-> FALSE, active_render |-> FALSE],
                                   [name |-> LIGHTMAP_UV_NAME, data |-> data,
                                    active |-> TRUE, active_render |-> TRUE] >>,
                  energy    |-> 0],
        material_slots |-> <<>>, modifiers |-> <<>>,
        hide_viewport |-> FALSE, hide_render |-> FALSE]

InitCoverage ==
    \E data \in CoverageInputs :
        /\ pc = "coverage_check"
        /\ objects = [o \in {MeshId(1)} |-> CoverageObject(data)]
        /\ materials = << >>
        /\ collections = [c \in {BAKER_COLLECTION_NAME} |->
                             [objects |-> {MeshId(1)}, children |-> <<>>]]
        /\ images = {}
        /\ selected = {}
        /\ active = MeshId(1)
        /\ mansion_objects = <<>>
        /\ joined_mansion = <<MeshId(1)>>
        /\ original_objects = <<>>
        /\ lights_on = NoCollection
        /\ lights_off = NoCollection
        /\ image_name = NoImage
        /\ original_light_energies = <<>>
        /\ original_emission_strengths = <<>>
        /\ baked = {}
        /\ saved = FALSE
        /\ exported = "no"
        /\ scene0 = [objects |-> objects, materials |-> materials,
                     collections |-> collections]
        /\ mode = "OBJECT"
        /\ log = <<>>

\* setup_uvs lines 461-502 on the bake target
VerifyUnwrapQuality ==
    /\ pc = "coverage_check"
    /\ log' = log \o CoverageLog(objects[joined_mansion[1]].data.uv_layers)
    /\ pc' = "coverage_checked"
    /\ UNCHANGED <<objects, materials, collections, images, selected, active,
                   mansion_objects, joined_mansion, original_objects, lights_on,
                   lights_off, image_name, original_light_energies,
                   original_emission_strengths, baked, saved, exported, scene0, mode>>

\* repack_joined_lightmap_uvs lines 325-338: the bounds of all coordinates;
\* without a coordinate both extents are -inf and their product is +inf
RepackCoverageClass(data) ==
    LET S == Range(data)
    IN IF S = {} THEN "good"
       ELSE LET coverage == (Max({p[1] : p \in S}) - Min({p[1] : p \in S}))
                                * (Max({p[2] : p \in S}) - Min({p[2] : p \in S}))
            IN IF coverage > 5000 THEN "good" ELSE "low"

\* repack_joined_lightmap_uvs(joined_obj) lines 275-340: pack_islands
\* rewrites the coordinates of LightmapUV ("packed"), or raises and the
\* second call rewrites them ("alternative") or raises too ("failed"); then
\* the coverage of the layer is logged
repack_joined_lightmap_uvs(objs, o, outcome, k) ==
    IF objs[o].type # "MESH" \/ ~HasLayer(objs[o].data.uv_layers, LIGHTMAP_UV_NAME)
    THEN objs
    ELSE [objs EXCEPT ![o].data.uv_layers =
            LET act == SetActive(@, LayerIndex(@, LIGHTMAP_UV_NAME))
            IN IF outcome = "failed" THEN act
               ELSE WriteActiveLayer(act, Layout(NLoops(objs[o]), k))]

RepackJoinedLightmapUvs ==
    /\ pc = "coverage_check"
    /\ \E outcome \in {"packed", "alternative", "failed"}, k \in 0..MaxLayouts :
          /\ outcome = "failed" => k = 0
          /\ objects' = repack_joined_lightmap_uvs(objects, joined_mansion[1], outcome, k)
    /\ log' = Append(log, RepackCoverageClass(LightmapData(objects', joined_mansion[1])))
    /\ selected' = {joined_mansion[1]}
    /\ active' = joined_mansion[1]
    /\ mode' = "OBJECT"
    /\ pc' = "repacked"
    /\ UNCHANGED <<materials, collections, images,
                   mansion_objects, joined_mansion, original_objects, lights_on,
                   lights_off, image_name, original_light_energies,
                   original_emission_strengths, baked, saved, exported, scene0>>

NextCoverage ==
    \/ VerifyUnwrapQuality
    \/ RepackJoinedLightmapUvs

SpecCoverage == InitCoverage /\ [][NextCoverage]_vars

\* ---------------------------------------------------------------- C19
\* the coordinates of the bake target's LightmapUV layer
TargetUVs == LightmapData(objects, joined_mansion[1])

\* the bounding box of the coordinates S is [0,1] x [0,1]
UnitBox(S) ==
    /\ S # {}
    /\ Min({p[1] : p \in S}) = 0 /\ Max({p[1] : p \in S}) = 100
    /\ Min({p[2] : p \in S}) = 0 /\ Max({p[2] : p \in S}) = 100

\* C19: the coverage check of setup_uvs logs 'excellent' for a LightmapUV
\* set of at most 100 coordinates whose bounding box is [0,1] x [0,1], and
\* for a set of 200 coordinates when every second one of them (the sampled
\* ones) spans [0,1] x [0,1]; it logs 'critical/collapsed' for a set that is
\* empty or collapsed to a single point, whatever its size.
C19_SampledBoxExcellent ==
    [][(pc = "coverage_check" /\ pc' = "coverage_checked") =>
          LET S == Range(TargetUVs)
              n == Len(TargetUVs)
          IN /\ (n <= SAMPLE_LIMIT /\ UnitBox(S)) => Logged = <<"excellent">>
             /\ (n = 2 * SAMPLE_LIMIT
                   /\ UnitBox({TargetUVs[2 * i + 1] : i \in 0..(SAMPLE_LIMIT - 1)})) =>
                      Logged = <<"excellent">>
             /\ Cardinality(S) <= 1 => Logged = <<"collapsed">>]_vars

\* C19 as stated: every LightmapUV set whose bounding box is [0,1] x [0,1] is
\* logged 'excellent', every empty or single-point set 'critical/collapsed'.
C19_BoxExcellent ==
    [][(pc = "coverage_check" /\ pc' = "coverage_checked") =>
          /\ UnitBox(Range(TargetUVs)) => Logged = <<"excellent">>
          /\ Cardinality(Range(TargetUVs)) <= 1 => Logged = <<"collapsed">>]_vars

C19_Witness ==
    /\ pc = "coverage_checked"
    /\ Len(TargetUVs) = MaxUvs
    /\ UnitBox(Range(TargetUVs))
    /\ log = <<"excellent">>


\* ---------------------------------------------------------------- C20
\* the coordinates the check of setup_uvs reads from a set of at most
\* SAMPLE_LIMIT or of 2 * SAMPLE_LIMIT coordinates
Sampled ==
    IF Len(TargetUVs) <= SAMPLE_LIMIT THEN Range(TargetUVs)
    ELSE {TargetUVs[2 * i + 1] : i \in 0..(SAMPLE_LIMIT - 1)}

ExtentU(S) == Max({p[1] : p \in S}) - Min({p[1] : p \in S})

ExtentV(S) == Max({p[2] : p \in S}) - Min({p[2] : p \in S})

Area(S) == IF S = {} THEN 0 ELSE ExtentU(S) * ExtentV(S)

OutsideRange(S) == \E p \in S : p[1] < -10 \/ p[1] > 110 \/ p[2] < -10 \/ p[2] > 110

Collapsed(S) == S = {} \/ ExtentU(S) < 10 \/ ExtentV(S) < 10

\* C20: the check of setup_uvs logs 'critical/collapsed' exactly when the
\* sampled coordinates are empty or extend over less than 0.1 along U or
\* along V; otherwise 'very low coverage' (warning) exactly when the area of
\* their bounds is below 0.1; otherwise 'outside 0-1 range' (warning) when a
\* sampled coordinate is below -0.1 or above 1.1; otherwise 'excellent' when
\* the area is above 0.5 and 'acceptable' when it is 0.1 to 0.5. The check of
\* repack_joined_lightmap_uvs logs 'good' when the area of the bounds of all
\* coordinates is above 0.5 (or there is no coordinate) and 'low' otherwise.
C20_CoverageClasses ==
    [][/\ (pc = "coverage_check" /\ pc' = "coverage_checked") =>
            LET S == Sampled
            IN Logged = << IF Collapsed(S) THEN "collapsed"
                           ELSE IF Area(S) < 1000 THEN "low_coverage"
                           ELSE IF OutsideRange(S) THEN "outside_range"
                           ELSE IF Area(S) > 5000 THEN "excellent"
                           ELSE "acceptable" >>
       /\ (pc = "coverage_check" /\ pc' = "repacked") =>
            LET S == Range(LightmapData(objects', joined_mansion[1]))
            IN Logged = << IF S = {} \/ Area(S) > 5000 THEN "good" ELSE "low" >>]_vars

\* C20 as stated: the class follows from the area of the bounding box alone:
\* below 0.1 'collapsed' (critical), 0.1 to 0.5 'low' (warning), above 0.5
\* acceptable.
C20_AreaAlone ==
    [][(pc = "coverage_check" /\ pc' = "coverage_checked") =>
          LET S == Range(TargetUVs)
          IN /\ Area(S) < 1000 => Logged = <<"collapsed">>
             /\ (Area(S) >= 1000 /\ Area(S) <= 5000) => Logged = <<"low_coverage">>
             /\ Area(S) > 5000 => Logged[1] \in {"excellent", "acceptable"}]_vars

C20_Witness ==
    /\ pc = "coverage_checked"
    /\ ~Collapsed(Sampled)
    /\ Area(Sampled) < 1000
    /\ log = <<"low_coverage">>


\* ---------------------------------------------------------------- C21
\* C21: the coverage check of setup_uvs reports the out-of-range warning
\* exactly when a sampled coordinate lies outside [-0.1, 1.1] on an axis and
\* the bounds of the samples are neither collapsed (an extent below 0.1) nor
\* of an area below 0.1; for collapsed or very low coverage the other line
\* is reported instead.
C21_OutsideRangeAfterCoverage ==
    [][(pc = "coverage_check" /\ pc' = "coverage_checked") =>
          (Logged = <<"outside_range">>
              <=> (/\ OutsideRange(Sampled)
                   /\ ~Collapsed(Sampled)
                   /\ Area(Sampled) >= 1000))]_vars

\* C21 as stated: the out-of-range warning is reported whenever a sampled
\* coordinate lies outside [-0.1, 1.1], for every value of the coverage.
C21_OutsideRangeAlways ==
    [][(pc = "coverage_check" /\ pc' = "coverage_checked" /\ OutsideRange(Sampled)) =>
          Logged = <<"outside_range">>]_vars

C21_Witness ==
    /\ pc = "coverage_checked"
    /\ OutsideRange(Sampled)
    /\ Area(Sampled) > 5000
    /\ log = <<"outside_range">>


\* ---------------------------------------------------------------- C22
\* C22: the list main gets from get_all_mesh_objects_in_collection holds
\* exactly the mesh objects of the Mansion collection and of the collections
\* below it at any depth, no object of another type, and is empty when the
\* collection does not exist.
C22_MeshesOfCollectionTree ==
    [][pc = "start" =>
          /\ Range(mansion_objects') = MansionMeshes
          /\ \A i \in 1..Len(mansion_objects') : objects[mansion_objects'[i]].type = "MESH"
          /\ MANSION_COLLECTION_NAME \notin DOMAIN collections => mansion_objects' = <<>>]_vars

C22_Witness ==
    /\ pc = "ensure_uv1"
    /\ \E o \in Range(mansion_objects) :
          /\ o \notin collections[MANSION_COLLECTION_NAME].objects
          /\ \A i \in 1..Len(collections[MANSION_COLLECTION_NAME].children) :
                o \notin collections[collections[MANSION_COLLECTION_NAME].children[i]].objects
    /\ \E o \in all_objects(collections, MANSION_COLLECTION_NAME) : ~IsMesh(o)
    /\ Len(mansion_objects) > 1


\* ---------------------------------------------------------------- C23
\* the names of the UV layers of object o
LayerNameSet(objs, o) == Range(LayerNames(objs[o].data.uv_layers))

\* C23: when join_objects has merged several objects, the UV layers of the
\* merged mesh are, each once, the layers any of the sources had, except
\* 'map1': 'map1' is gone and no other layer is.
C23_Map1RemovedOnly ==
    [][(pc = "join" /\ Len(mansion_objects) > 1) =>
          LET j   == joined_mansion'[1]
              src == UNION {LayerNameSet(objects, o) : o \in Range(mansion_objects)}
          IN /\ MAP1_NAME \notin LayerNameSet(objects', j)
             /\ LayerNameSet(objects', j) = src \ {MAP1_NAME}
             /\ Cardinality(LayerNameSet(objects', j)) = Len(objects'[j].data.uv_layers)]_vars

C23_Witness ==
    /\ pc = "cleanup"
    /\ Len(original_objects) > 1
    /\ \E o \in Range(original_objects) : MAP1_NAME \in LayerNameSet(objects, o)
    /\ MAP1_NAME \notin LayerNameSet(objects, joined_mansion[1])
    /\ Cardinality(LayerNameSet(objects, joined_mansion[1])) >= 2


\* ---------------------------------------------------------------- C24
\* the modifiers apply_modifiers leaves on a stack: the hidden ones and the
\* ones the host could not apply
LeftOnStack(mods) == SelectSeq(mods, LAMBDA m : ~m.show_viewport \/ m.raises)

\* the displacement of the modifiers that are visible and can be applied
RECURSIVE AppliedShift(_)
AppliedShift(mods) ==
    IF Len(mods) = 0 THEN 0
    ELSE (IF Head(mods).show_viewport /\ ~Head(mods).raises THEN Head(mods).shift ELSE 0)
            + AppliedShift(Tail(mods))

\* C24: apply_modifiers applies, on every object of its list, every
\* viewport-visible modifier the host can apply, also those handled after a
\* modifier that raised and those of the objects after it; a modifier that
\* raised stays on the stack and is logged once; a modifier with
\* show_viewport false is never applied; and main goes on to the join.
C24_RaisingModifierSkipped ==
    [][pc = "apply_modifiers" =>
          /\ pc' = "join"
          /\ \A o \in Range(mansion_objects) :
                /\ objects'[o].modifiers = LeftOnStack(objects[o].modifiers)
                /\ \A v \in 1..Len(objects[o].data.vertices) :
                      objects'[o].data.vertices[v][1] =
                          objects[o].data.vertices[v][1] + AppliedShift(objects[o].modifiers)
          /\ Len(Logged) = Cardinality(UNION {
                {<<o, m>> : m \in {k \in 1..Len(objects[o].modifiers) :
                                     /\ objects[o].modifiers[k].show_viewport
                                     /\ objects[o].modifiers[k].raises}} :
                o \in Range(mansion_objects)})]_vars

C24_Witness ==
    /\ pc = "join"
    /\ Len(mansion_objects) > 1
    /\ Len(scene0.objects[mansion_objects[1]].modifiers) = 3
    /\ Len(objects[mansion_objects[1]].modifiers) = 2
    /\ objects[mansion_objects[2]].modifiers = <<>>
    /\ scene0.objects[mansion_objects[2]].modifiers # <<>>
    /\ Count(log, "could_not_apply") = 1


\* ---------------------------------------------------------------- C25
\* the lamps of the two light collections, at any nesting depth
LightObjects ==
    {o \in all_objects(collections, lights_on) \cup all_objects(collections, lights_off) :
        objects[o].type = "LIGHT"}

MissingUv2(objs) ==
    {original_objects[i] : i \in 1..Len(original_objects)}
      \cap {o \in DOMAIN objs : objs[o].type = "MESH"
                                 /\ ~HasLayer(objs[o].data.uv_layers, LIGHTMAP_UV_NAME)}

\* C26: when verify_and_fix_uv2 runs in main, no original mesh object is
\* missing LightmapUV, so the verification adds no layer and copies no
\* coordinates: it leaves the names and the coordinates of every layer of
\* every original as the transfer left them.
C26_VerifyFindsNothingMissing ==
    [][pc = "verify" =>
          /\ MissingUv2(objects) = {}
          /\ \A i \in 1..Len(original_objects) :
                LET before == objects[original_objects[i]].data.uv_layers
                    after  == objects'[original_objects[i]].data.uv_layers
                IN /\ LayerNames(after) = LayerNames(before)
                   /\ \A k \in 1..Len(before) : after[k].data = before[k].data]_vars

C26_Witness ==
    /\ pc = "hide"
    /\ Len(original_objects) > 1
    /\ \A i \in 1..Len(original_objects) :
          /\ ~HasLayer(scene0.objects[original_objects[i]].data.uv_layers, LIGHTMAP_UV_NAME)
          /\ HasLayer(objects[original_objects[i]].data.uv_layers, LIGHTMAP_UV_NAME)


\* ---------------------------------------------------------------- C27
\* the nodes of material m that hold the lightmap image
ImageNodes(mats, m, image) ==
    {n \in 1..Len(mats[m].nodes) : mats[m].nodes[n].image = image}

\* the materials perform_bake gave an image node: the node materials in the
\* slots of the bake target
BakedMaterials ==
    {m \in Range(objects[joined_mansion[1]].material_slots) :
        m # NoMaterial /\ materials[m].use_nodes}

TexImageNodes(mats, m) ==
    IF m \notin DOMAIN mats THEN {}
    ELSE {n \in 1..Len(mats[m].nodes) : mats[m].nodes[n].type = "TEX_IMAGE"}

\* C28: when a bake operator is about to run, the active node of every node
\* material of the bake target is an image-texture node holding the image of
\* this bake; and once both bakes have run, each of these materials has
\* exactly two image-texture nodes more than it started with, one holding
\* the 'On' image and one holding the 'Off' image.
C28_ActiveNodeAndTwoGained ==
    /\ pc \in {"baking_on", "baking_off"} =>
          \A m \in BakedMaterials :
             /\ materials[m].active_node \in TexImageNodes(materials, m)
             /\ materials[m].nodes[materials[m].active_node].image = image_name
             /\ image_name = (IF pc = "baking_on" THEN IMAGE_ON ELSE IMAGE_OFF)
    /\ (pc \notin Returned /\ StageRank(pc) > StageRank("baking_off")) =>
          \A m \in BakedMaterials :
             /\ Cardinality(TexImageNodes(materials, m))
                   = Cardinality(TexImageNodes(scene0.materials, m)) + 2
             /\ Cardinality(ImageNodes(materials, m, IMAGE_ON)) = 1
             /\ Cardinality(ImageNodes(materials, m, IMAGE_OFF)) = 1


\* ------------------------------------------------------- consolidate.py
\* The scenes the two stand-alone scripts are run on hold at most
\* MaxScriptObjects objects.
MaxScriptObjects == 3

\* lines 5-29: two of the names of the list
CENTER_POINT_NAMES == {Name("CENTRE_corridor"), Name("CENTRE_Entry")}

\* The object tables a script starts from, in scene order: every sequence of
\* at most MaxScriptObjects objects over the options opts in which no two
\* objects share a name (an object drawn with the name 'Room' is named after
\* its place).  parts records the meshes an object is made of.
ScriptScenes(opts) ==
    {[i \in 1..Len(s) |->
        [name          |-> IF s[i].name = Name("Room") THEN <<"Room", i>> ELSE s[i].name,
         type          |-> s[i].type,
         location      |-> s[i].location,
         hide_viewport |-> s[i].hide_viewport,
         in_view_layer |-> s[i].in_view_layer,
         parts         |-> {i}]] :
       s \in {t \in SeqsOf(opts, 0, MaxScriptObjects) :
                \A i, j \in 1..Len(t) :
                    (i # j /\ t[i].name = t[j].name) => t[i].name = Name("Room")}}

\* the state a script starts in: the document holds the objects of objs
InitScript(objs, start) ==
    /\ pc = start
    /\ objects = objs
    /\ materials = << >>
    /\ collections = << >>
    /\ images = {}
    /\ selected = {}
    /\ active = NoObject
    /\ mansion_objects = <<>>
    /\ joined_mansion = <<>>
    /\ original_objects = <<>>
    /\ lights_on = NoCollection
    /\ lights_off = NoCollection
    /\ image_name = NoImage
    /\ original_light_energies = <<>>
    /\ original_emission_strengths = <<>>
    /\ baked = {}
    /\ saved = FALSE
    /\ exported = <<>>
    /\ scene0 = [objects |-> objs, materials |-> << >>, collections |-> << >>]
    /\ mode = "OBJECT"
    /\ log = <<>>

\* consolidate.py is run on a scene of meshes and empties, some of them named
\* as center points, at three places of a line, all of them selectable
InitConsolidate ==
    \E objs \in ScriptScenes([name : CENTER_POINT_NAMES \cup {Name("Room")},
                              type : {"MESH", "EMPTY"},
                              location : {<<0, 0, 0>>, <<1, 0, 0>>, <<2, 0, 0>>},
                              hide_viewport : {FALSE}, in_view_layer : {TRUE}]) :
        InitScript(objs, "consolidate")

\* line 35
centers(objs) ==
    SelectSeq(SetToSeq(DOMAIN objs), LAMBDA o : objs[o].name \in CENTER_POINT_NAMES)

\* variant: a later center at the same distance replaces the earlier one
RECURSIVE closest_center_LastWins(_, _, _, _, _)
closest_center_LastWins(objs, mesh_obj, cs, closest, min_dist) ==
    IF Len(cs) = 0 THEN closest
    ELSE LET v    == [k \in 1..3 |-> objs[mesh_obj].location[k] - objs[Head(cs)].location[k]]
             dist == v[1] * v[1] + v[2] * v[2] + v[3] * v[3]
         IN IF closest = NoObject \/ dist <= min_dist
            THEN closest_center_LastWins(objs, mesh_obj, Tail(cs), Head(cs), dist)
            ELSE closest_center_LastWins(objs, mesh_obj, Tail(cs), closest, min_dist)

\* lines 47-53 for the centers cs still to visit; closest = NoObject stands
\* for closest_center = None with min_dist = inf.  dist is the square of
\* (mesh_obj.location - center.location).length: the length is its square
\* root, which orders the distances between the places of the scenes the
\* same way.
RECURSIVE closest_center(_, _, _, _, _)
closest_center(objs, mesh_obj, cs, closest, min_dist) ==
    IF Len(cs) = 0 THEN closest
    ELSE LET v    == [k \in 1..3 |-> objs[mesh_obj].location[k] - objs[Head(cs)].location[k]]
             dist == v[1] * v[1] + v[2] * v[2] + v[3] * v[3]
         IN IF closest = NoObject \/ dist < min_dist
            THEN closest_center(objs, mesh_obj, Tail(cs), Head(cs), dist)
            ELSE closest_center(objs, mesh_obj, Tail(cs), closest, min_dist)

\* lines 40-55: the dictionary from center name to the list of its meshes,
\* which are taken from all_meshes (line 41) in scene order
grouped_objects(objs) ==
    [n \in {objs[c].name : c \in Range(centers(objs))} |->
        SelectSeq(SelectSeq(SetToSeq(DOMAIN objs), LAMBDA o : objs[o].type = "MESH"),
                  LAMBDA m : LET c == closest_center(objs, m, centers(objs), NoObject, 0)
                             IN c # NoObject /\ objs[c].name = n)]

\* lines 60-71 for the center names still to visit, on st = [objs, selected,
\* active]: the meshes of a group are joined into the first of them, which
\* is renamed
RECURSIVE JoinGroups(_, _, _)
JoinGroups(st, names, groups) ==
    IF Len(names) = 0 THEN st
    ELSE LET objects_to_join == groups[Head(names)]
             act    == objects_to_join[1]
             others == Range(objects_to_join) \ {act}
             merged == UNION {st.objs[o].parts : o \in Range(objects_to_join)}
         IN JoinGroups(
              IF Len(objects_to_join) = 0 THEN st
              ELSE [objs |-> [o \in DOMAIN st.objs \ others |->
                                IF o = act
                                THEN [st.objs[o] EXCEPT
                                        !.name = <<"MERGED_" \o Head(names)[1], Head(names)[2]>>,
                                        !.parts = merged]
                                ELSE st.objs[o]],
                    selected |-> {act},
                    active |-> act],
              Tail(names), groups)

\* the script, lines 35-77
Consolidate ==
    /\ pc = "consolidate"
    /\ IF Len(centers(objects)) = 0
       THEN /\ log' = Append(log, "no_centers")
            /\ pc' = "no_centers"
            /\ UNCHANGED <<objects, selected, active, saved>>
       ELSE LET names == [i \in 1..Len(centers(objects)) |->
                             objects[centers(objects)[i]].name]
                st == JoinGroups([objs |-> objects, selected |-> selected,
                                  active |-> active],
                                 names, grouped_objects(objects))
            IN /\ objects' = st.objs
               /\ selected' = st.selected
               /\ active' = st.active
               /\ saved' = TRUE
               /\ log' = log \o <<"grouped", "saved", "finished">>
               /\ pc' = "consolidated"
    /\ UNCHANGED <<materials, collections, images, mansion_objects, joined_mansion,
                   original_objects, lights_on, lights_off, image_name,
                   original_light_energies, original_emission_strengths, baked,
                   exported, scene0, mode>>

NextConsolidate == Consolidate

SpecConsolidate == InitConsolidate /\ [][NextConsolidate]_vars

\* ---------------------------------------------------------------- C29
\* the squared distance between the places a and b
SqDist(a, b) ==
    (a[1] - b[1]) * (a[1] - b[1]) + (a[2] - b[2]) * (a[2] - b[2])
        + (a[3] - b[3]) * (a[3] - b[3])

\* C29: consolidate.py puts every mesh object of the scene in the group of
\* exactly one center point, once: a center whose distance from the mesh is
\* minimal and that comes before every other center at that distance in
\* scene order; the mesh ends in the object named MERGED_<that center>.
\* Without a center point the scene is left as it is and nothing is saved.
C29_NearestCenterGroups ==
    [][pc = "consolidate" =>
          LET cs == centers(objects)
              g  == grouped_objects(objects)
              d(m, c) == SqDist(objects[m].location, objects[c].location)
          IN IF Len(cs) = 0
             THEN objects' = objects /\ selected' = selected /\ ~saved'
             ELSE /\ saved'
                  /\ \A m \in {o \in DOMAIN objects : objects[o].type = "MESH"} :
                       \E i \in 1..Len(cs) :
                          /\ \A j \in 1..Len(cs) : d(m, cs[j]) >= d(m, cs[i])
                          /\ \A j \in 1..(i - 1) : d(m, cs[j]) > d(m, cs[i])
                          /\ {n \in DOMAIN g : m \in Range(g[n])} = {objects[cs[i]].name}
                          /\ Count(g[objects[cs[i]].name], m) = 1
                          /\ \E o \in DOMAIN objects' :
                                /\ m \in objects'[o].parts
                                /\ objects'[o].name =
                                     <<"MERGED_" \o objects[cs[i]].name[1],
                                       objects[cs[i]].name[2]>>]_vars

C29_Witness ==
    /\ pc = "consolidated"
    /\ saved
    /\ \E m, c1, c2 \in DOMAIN scene0.objects :
          /\ c1 < c2
          /\ scene0.objects[m].type = "MESH"
          /\ scene0.objects[c1].name \in CENTER_POINT_NAMES
          /\ scene0.objects[c2].name \in CENTER_POINT_NAMES
          /\ scene0.objects[c1].location # scene0.objects[m].location
          /\ SqDist(scene0.objects[m].location, scene0.objects[c1].location)
                = SqDist(scene0.objects[m].location, scene0.objects[c2].location)
          /\ \E o \in DOMAIN objects :
                /\ m \in objects[o].parts
                /\ objects[o].name = <<"MERGED_" \o scene0.objects[c1].name[1],
                                       scene0.objects[c1].name[2]>>


\* ------------------------------------------------------ batch_export.py
\* batch_export.py is run on a document of meshes and empties; an object may
\* be disabled in the viewport, and an object of bpy.data.objects may be
\* outside the view layer (linked to no collection of the scene)
InitBatchExport ==
    \E objs \in ScriptScenes([name : {Name("Room")},
                              type : {"MESH", "EMPTY"},
                              location : {<<0, 0, 0>>},
                              hide_viewport : BOOLEAN, in_view_layer : BOOLEAN]) :
        InitScript(objs, "batch_export")

\* line 20
objects_to_export(objs) ==
    SelectSeq(SetToSeq(DOMAIN objs), LAMBDA o : objs[o].type = "MESH")

\* main lines 12-26
BatchStart ==
    /\ pc = "batch_export"
    /\ IF Len(objects_to_export(objects)) = 0
       THEN log' = Append(log, "no_meshes") /\ pc' = "returned_no_meshes"
       ELSE log' = Append(log, "found") /\ pc' = "exporting"
    /\ UNCHANGED <<objects, materials, collections, images, selected, active,
                   mansion_objects, joined_mansion, original_objects, lights_on,
                   lights_off, image_name, original_light_energies,
                   original_emission_strengths, baked, saved, exported, scene0, mode>>

\* main lines 28-53, one turn of the loop: exported holds a record for every
\* call of export_scene.gltf so far.  select_set(True) raises for an object
\* outside the view layer, which ends the script, and leaves an object that
\* is disabled in the viewport unselected; the export raises or not, and what
\* it raises is caught.
ExportOne ==
    /\ pc = "exporting"
    /\ LET list == objects_to_export(objects)
           obj  == list[Len(exported) + 1]
       IN IF ~objects[obj].in_view_layer
          THEN /\ selected' = {}
               /\ log' = Append(log, "select_raised")
               /\ pc' = "raised"
               /\ UNCHANGED exported
          ELSE /\ selected' = Selectable(objects, {obj})
               /\ \E ok \in BOOLEAN :
                     /\ exported' = Append(exported, [obj |-> obj, selection |-> selected',
                                                      ok |-> ok])
                     /\ log' = Append(log, IF ok THEN "success" ELSE "error_exporting")
                                  \o (IF Len(exported) + 1 = Len(list)
                                      THEN <<"export_complete">> ELSE <<>>)
               /\ pc' = IF Len(exported) + 1 = Len(list) THEN "done" ELSE "exporting"
    /\ UNCHANGED <<objects, materials, collections, images, active,
                   mansion_objects, joined_mansion, original_objects, lights_on,
                   lights_off, image_name, original_light_energies,
                   original_emission_strengths, baked, saved, scene0, mode>>

NextBatchExport ==
    \/ BatchStart
    \/ ExportOne

SpecBatchExport == InitBatchExport /\ [][NextBatchExport]_vars

\* ---------------------------------------------------------------- C30
\* C30: the calls of the exporter made by batch_export.main are one per mesh
\* object, in order, each with exactly that object selected; the loop is
\* never left before the last mesh object (a failed export is followed by
\* the next one, and the run ends with as many calls as there are mesh
\* objects); without a mesh object there is no call.
C30_OneExportPerMesh ==
    LET list == objects_to_export(objects)
    IN /\ pc # "raised"
       /\ Len(exported) <= Len(list)
       /\ \A i \in 1..Len(exported) :
             /\ exported[i].obj = list[i]
             /\ exported[i].selection = {list[i]}
       /\ pc = "done" => Len(exported) = Len(list)
       /\ pc = "exporting" => Len(exported) < Len(list)
       /\ pc = "returned_no_meshes" => Len(list) = 0
       /\ Len(list) = 0 => Len(exported) = 0

====
